---- MODULE Spec2Model ----
(***************************************************************************)
(* Authentication / session / premium-gate subsystem of the Templater      *)
(* backend (FastAPI + MongoDB).  The document store is the state; every    *)
(* HTTP handler (and the start-up admin script) is one action.  Time is    *)
(* counted in minutes since the model's epoch.                             *)
(***************************************************************************)
EXTENDS Integers, FiniteSets, Sequences, TLC

VARIABLES users, sessions, auth_tokens, premium_upgrades, issued, now, ticks, resp,
          inflight, settings, retired, templates, stripe

vars == <<users, sessions, auth_tokens, premium_upgrades, issued, now, ticks, resp,
          inflight, settings, retired, templates, stripe>>

(* ------------------------------ bounds --------------------------------- *)
MaxUsers == 2
MaxSessions == 2
MaxTicks == 1
MaxUpgrades == 2
MaxRequests == 2
MaxTemplates == 2
MaxCheckouts == 2

(* ------------------------- program constants --------------------------- *)
ACCESS_TOKEN_EXPIRE_MINUTES == 30
REFRESH_TOKEN_EXPIRE_DAYS == 7
VERIFICATION_TOKEN_HOURS == 24
RESET_TOKEN_HOURS == 1
JWT_SECRET_KEY == "JWT_SECRET_KEY"
JWT_REFRESH_SECRET_KEY == "JWT_REFRESH_SECRET_KEY"
ADMIN_EMAIL == "admin@templater.com"
\* passwords are byte strings, written as sequences of characters
ADMIN_PASSWORD == <<"A", "d", "m", "i", "n", "@", "1", "2", "3">>
\* bcrypt hashes the first 72 bytes of its input
BCRYPT_MAX_BYTES == 72
BCRYPT_PREFIX == "$2b$12$"
PASSWORD_MIN_LENGTH == 8

(* --------------------------- input domains ----------------------------- *)
UserIds == 1..MaxUsers
SessionIds == 1..MaxSessions
Emails == {ADMIN_EMAIL, "alice@example.com"}
Passwords == {ADMIN_PASSWORD, <<"P", "a", "s", "s", "w", "0", "r", "d", "!">>}
\* two passphrases that differ only after their 72nd byte
LongPrefix == [i \in 1..BCRYPT_MAX_BYTES |-> "x"]
LongPasswords == {LongPrefix \o <<"1">>, LongPrefix \o <<"2">>}
NoUser == [absent |-> "user"]
NoSession == [absent |-> "session"]
TemplateIds == 1..MaxTemplates
NoTemplate == [absent |-> "template"]
Titles == {"Invoice", "Poster"}
\* a TemplateUpdateRequest: a title, or no field set at all
Unset == "(unset)"
TemplateUpdates == Titles \cup {Unset}
\* request handlers that may run concurrently, and a handler with no request
Requests == 1..MaxRequests
Idle == [absent |-> "request"]
\* User-Agent headers, each as the set of tested substrings it contains
NoUserAgent == {}
UserAgents == {NoUserAgent,
               {"chrome", "safari", "windows"},
               {"safari", "mobile", "iphone", "mac"}}
None == [absent |-> "none"]
\* a token string that no key of this deployment signed
Garbage == [key |-> "unknown", type |-> "access", user_id |-> 0, email |-> "",
            role |-> "", exp |-> 0]
\* the clock advance offered to the environment: just past the refresh-token
\* lifetime, which is the longest of the four token lifetimes
TickSteps == {REFRESH_TOKEN_EXPIRE_DAYS * 24 * 60 + 1}

\* clock advances for the verification flow: a minute, and just past the
\* verification token's lifetime
VerifyTickSteps == {1, VERIFICATION_TOKEN_HOURS * 60 + 1}

(* -------------------------- core/config.py ----------------------------- *)
\* the Settings fields the cookie flags depend on, as read from the
\* environment at start-up; COOKIE_SECURE is an optional boolean
Environments == {"development", "production", "Production"}
FrontendUrls == {"http://localhost:3000", "https://app.example.com"}
HttpsUrls == {"https://app.example.com"}
SettingsChoices ==
    [ENVIRONMENT : Environments, COOKIE_SECURE : {"unset", "true", "false"},
     FRONTEND_URL : FrontendUrls]

\* the defaults of the Settings class
DefaultSettings ==
    [ENVIRONMENT |-> "development", COOKIE_SECURE |-> "unset",
     FRONTEND_URL |-> "http://localhost:3000"]

\* str.lower on the environment names above
lower(name) == IF name = "Production" THEN "production" ELSE name

is_production == lower(settings.ENVIRONMENT) \in {"production", "prod"}

should_use_secure_cookies ==
    IF settings.COOKIE_SECURE # "unset" THEN settings.COOKIE_SECURE = "true"
    ELSE IF is_production THEN TRUE
    ELSE settings.FRONTEND_URL \in HttpsUrls

(* -------------------------- core/cookies.py ---------------------------- *)
\* set_auth_cookies: both cookies with the secure flag the settings call for
set_auth_cookies(access_token, refresh_token) ==
    {[key |-> "access_token", value |-> access_token, httponly |-> TRUE,
      secure |-> should_use_secure_cookies, samesite |-> "lax",
      max_age |-> ACCESS_TOKEN_EXPIRE_MINUTES * 60],
     [key |-> "refresh_token", value |-> refresh_token, httponly |-> TRUE,
      secure |-> should_use_secure_cookies, samesite |-> "lax",
      max_age |-> REFRESH_TOKEN_EXPIRE_DAYS * 24 * 60 * 60]}

\* the two response.set_cookie calls signin and refresh_token make
response_set_cookie(access_token, refresh_token) ==
    {[key |-> "access_token", value |-> access_token, httponly |-> TRUE,
      secure |-> FALSE, samesite |-> "lax",
      max_age |-> ACCESS_TOKEN_EXPIRE_MINUTES * 60],
     [key |-> "refresh_token", value |-> refresh_token, httponly |-> TRUE,
      secure |-> FALSE, samesite |-> "lax",
      max_age |-> REFRESH_TOKEN_EXPIRE_DAYS * 24 * 60 * 60]}

(* ------------------------- core/security.py ---------------------------- *)
\* pwd_context.hash with schemes=["bcrypt"], ident 2b, 12 rounds: the hash is
\* the scheme prefix followed by the digest, which is written here as the
\* bytes it is a digest of; passlib hands bcrypt the password and bcrypt
\* digests its first 72 bytes.  The random salt is left out: it is
\* stored in the hash and verify re-uses it
bcrypt_input(password) ==
    SubSeq(password, 1,
           IF Len(password) < BCRYPT_MAX_BYTES THEN Len(password)
           ELSE BCRYPT_MAX_BYTES)

get_password_hash(password) == <<BCRYPT_PREFIX>> \o bcrypt_input(password)

verify_password(plain_password, hashed_password) ==
    hashed_password = get_password_hash(plain_password)

create_access_token(data, t) ==
    [key |-> JWT_SECRET_KEY, type |-> "access", user_id |-> data.user_id,
     email |-> "", role |-> data.role, exp |-> t + ACCESS_TOKEN_EXPIRE_MINUTES]

create_refresh_token(data, t) ==
    [key |-> JWT_REFRESH_SECRET_KEY, type |-> "refresh", user_id |-> data.user_id,
     email |-> "", role |-> data.role,
     exp |-> t + REFRESH_TOKEN_EXPIRE_DAYS * 24 * 60]

create_verification_token(email, t) ==
    [key |-> JWT_SECRET_KEY, type |-> "verification", user_id |-> 0,
     email |-> email, role |-> "", exp |-> t + VERIFICATION_TOKEN_HOURS * 60]

create_reset_token(email, t) ==
    [key |-> JWT_SECRET_KEY, type |-> "reset", user_id |-> 0,
     email |-> email, role |-> "", exp |-> t + RESET_TOKEN_HOURS * 60]

\* a decode that checks exp only, not the signature
verify_token_no_signature(token, secret_key, t) ==
    IF t <= token.exp
    THEN [type |-> token.type, user_id |-> token.user_id, email |-> token.email,
          role |-> token.role, exp |-> token.exp]
    ELSE None

\* jwt.decode: signature under secret_key, then exp; any failure gives None
verify_token(token, secret_key, t) ==
    IF token.key = secret_key /\ t <= token.exp
    THEN [type |-> token.type, user_id |-> token.user_id, email |-> token.email,
          role |-> token.role, exp |-> token.exp]
    ELSE None

(* ------------------------------ store ---------------------------------- *)
ExistingUsers == {u \in UserIds : users[u] # NoUser}
ExistingSessions == {s \in SessionIds : sessions[s] # NoSession}

\* users_collection.find_one({"email": email}): the first match in _id order
find_by_email(email) ==
    LET m == {u \in ExistingUsers : users[u].email = email}
    IN IF m = {} THEN 0 ELSE CHOOSE u \in m : \A v \in m : u <= v

\* insert_one: the new document takes the next free id; an ObjectId is never
\* handed out twice, so the ids of deleted documents (retired) stay taken
FreeUserIds == UserIds \ (ExistingUsers \cup retired.users)
FreeSessionIds == SessionIds \ (ExistingSessions \cup retired.sessions)
next_user_id == CHOOSE u \in FreeUserIds : \A v \in FreeUserIds : u <= v
next_session_id == CHOOSE s \in FreeSessionIds : \A v \in FreeSessionIds : s <= v

\* what the last request returned: handler, HTTP status, detail, the account
\* it acted for (0 when none) and the response body
Reply(op, code, detail, user, out) ==
    [op |-> op, code |-> code, detail |-> detail, user |-> user, out |-> out,
     cookies |-> {}]

(* ------------------------ services/auth_service.py --------------------- *)
\* SignUpRequest: pydantic keeps the fields the schema declares and ignores
\* every other key of the request body
SignUpRequest(body) == [email |-> body.email, password |-> body.password]

\* UserInDB(**user_dict) as inserted: a field the dict does not carry takes
\* the model's default (role "user", is_active, not verified, not premium)
NewUserDocument(user_dict, verification_token) ==
    [email |-> user_dict.email,
     hashed_password |-> get_password_hash(user_dict.password),
     role |-> IF "role" \in DOMAIN user_dict THEN user_dict.role ELSE "user",
     is_active |-> TRUE, is_verified |-> FALSE, is_premium |-> FALSE,
     stripe_customer_id |-> 0,
     verification_token |-> verification_token,
     verification_token_expires |-> now + VERIFICATION_TOKEN_HOURS * 60]

\* a create_user that gives the account up when the mail does not go out
create_user_needs_delivery(user_data, delivered) ==
    /\ IF find_by_email(user_data.email) # 0
       THEN /\ resp' = Reply("signup", 400, "Email already registered", 0, None)
            /\ UNCHANGED <<users, issued>>
       ELSE IF ~delivered
       THEN /\ resp' = Reply("signup", 500, "Email sending failed", 0, None)
            /\ UNCHANGED <<users, issued>>
       ELSE /\ FreeUserIds # {}
            /\ LET vt == create_verification_token(user_data.email, now)
               IN /\ users' = [users EXCEPT ![next_user_id] =
                                  NewUserDocument(user_data, vt)]
                  /\ issued' = issued \cup {vt}
            /\ resp' = Reply("signup", 200, "User created successfully", next_user_id, None)
    /\ UNCHANGED <<sessions, auth_tokens, premium_upgrades, now, ticks, settings, retired, templates, stripe, inflight>>

\* AuthService.create_user; delivered tells whether send_email got the
\* verification mail out, which create_user does not look at
create_user(user_data, delivered) ==
    /\ IF find_by_email(user_data.email) # 0
       THEN /\ resp' = Reply("signup", 400, "Email already registered", 0, None)
            /\ UNCHANGED <<users, issued>>
       ELSE /\ FreeUserIds # {}
            /\ LET vt == create_verification_token(user_data.email, now)
               IN /\ users' = [users EXCEPT ![next_user_id] =
                                  NewUserDocument(user_data, vt)]
                  /\ issued' = IF delivered THEN issued \cup {vt} ELSE issued
            /\ resp' = Reply("signup", 200, "User created successfully", next_user_id, None)
    /\ UNCHANGED <<sessions, auth_tokens, premium_upgrades, now, ticks, settings, retired, templates, stripe, inflight>>

\* create_user as the two store operations it awaits: handler r's find_one ...
create_user_check(r, user_data) ==
    /\ inflight[r] = Idle
    /\ IF find_by_email(user_data.email) # 0
       THEN /\ resp' = Reply("signup", 400, "Email already registered", 0, None)
            /\ UNCHANGED inflight
       ELSE /\ inflight' = [inflight EXCEPT ![r] =
                               [op |-> "create_user", user_data |-> user_data]]
            /\ UNCHANGED resp
    /\ UNCHANGED <<users, sessions, auth_tokens, premium_upgrades, issued, now, ticks, settings, retired, templates, stripe>>

\* ... and, whatever other handlers did in between, its insert_one
create_user_insert(r) ==
    /\ inflight[r] # Idle
    /\ inflight[r].op = "create_user"
    /\ FreeUserIds # {}
    /\ LET user_data == inflight[r].user_data
           vt == create_verification_token(user_data.email, now)
       IN /\ users' = [users EXCEPT ![next_user_id] = NewUserDocument(user_data, vt)]
          /\ issued' = issued \cup {vt}
    /\ resp' = Reply("signup", 200, "User created successfully", next_user_id, None)
    /\ inflight' = [inflight EXCEPT ![r] = Idle]
    /\ UNCHANGED <<sessions, auth_tokens, premium_upgrades, now, ticks, settings, retired, templates, stripe>>

\* POST /signup: body validation (password of at least 8 characters), then
\* create_user
signup_request(body, delivered) ==
    IF Len(body.password) < PASSWORD_MIN_LENGTH
    THEN /\ resp' = Reply("signup", 422, "String should have at least 8 characters",
                          0, None)
         /\ UNCHANGED <<users, sessions, auth_tokens, premium_upgrades, issued,
                        now, ticks, settings, retired, templates, stripe, inflight>>
    ELSE create_user(SignUpRequest(body), delivered)

\* a well-formed signup whose verification mail arrives
signup(email, password) ==
    signup_request([email |-> email, password |-> password], TRUE)

\* the decision without the test on is_verified
verify_email_result_no_verified_test(token) ==
    LET payload == verify_token(token, JWT_SECRET_KEY, now)
    IN IF payload = None \/ payload.type # "verification"
       THEN [code |-> 400, detail |-> "Invalid verification token", user |-> 0]
       ELSE LET u == find_by_email(payload.email)
            IN IF u = 0
               THEN [code |-> 404, detail |-> "User not found", user |-> 0]
               ELSE [code |-> 200, detail |-> "Email verified successfully", user |-> u]

\* the decision without the test on payload.type
verify_email_result_any_type(token) ==
    LET payload == verify_token(token, JWT_SECRET_KEY, now)
    IN IF payload = None
       THEN [code |-> 400, detail |-> "Invalid verification token", user |-> 0]
       ELSE LET u == find_by_email(payload.email)
            IN IF u = 0
               THEN [code |-> 404, detail |-> "User not found", user |-> 0]
               ELSE IF users[u].is_verified
               THEN [code |-> 400, detail |-> "Email already verified", user |-> u]
               ELSE [code |-> 200, detail |-> "Email verified successfully", user |-> u]

\* the decision of AuthService.verify_email for a presented token
verify_email_result(token) ==
    LET payload == verify_token(token, JWT_SECRET_KEY, now)
    IN IF payload = None \/ payload.type # "verification"
       THEN [code |-> 400, detail |-> "Invalid verification token", user |-> 0]
       ELSE LET u == find_by_email(payload.email)
            IN IF u = 0
               THEN [code |-> 404, detail |-> "User not found", user |-> 0]
               ELSE IF users[u].is_verified
               THEN [code |-> 400, detail |-> "Email already verified", user |-> u]
               ELSE [code |-> 200, detail |-> "Email verified successfully", user |-> u]

verify_email(token) ==
    LET r == verify_email_result(token)
    IN /\ users' = IF r.code = 200
                   THEN [users EXCEPT ![r.user] =
                            [@ EXCEPT !.is_verified = TRUE,
                                      !.verification_token = None,
                                      !.verification_token_expires = None]]
                   ELSE users
       /\ resp' = Reply("verify_email", r.code, r.detail, r.user, None)
       /\ UNCHANGED <<sessions, auth_tokens, premium_upgrades, issued, now, ticks, settings, retired, templates, stripe, inflight>>

\* AuthService.resend_verification behind POST /resend-verification: a new
\* token replaces the stored one and is mailed
resend_verification(email) ==
    LET u == find_by_email(email)
        vt == create_verification_token(email, now)
    IN /\ IF u = 0
          THEN /\ resp' = Reply("resend_verification", 404, "User not found", 0, None)
               /\ UNCHANGED <<users, issued>>
          ELSE IF users[u].is_verified
          THEN /\ resp' = Reply("resend_verification", 400, "Email already verified",
                                u, None)
               /\ UNCHANGED <<users, issued>>
          ELSE /\ users' = [users EXCEPT ![u] =
                              [@ EXCEPT !.verification_token = vt,
                                        !.verification_token_expires =
                                            now + VERIFICATION_TOKEN_HOURS * 60]]
               /\ issued' = issued \cup {vt}
               /\ resp' = Reply("resend_verification", 200,
                                "Verification email sent successfully", u, None)
       /\ UNCHANGED <<sessions, auth_tokens, premium_upgrades, now, ticks, settings, retired, templates, stripe, inflight>>

\* an update_data that passes every key of profile_data on
profile_update_data_unfiltered(profile_data) == profile_data

\* update_data: the keys of profile_data that are in allowed_fields
profile_update_data(profile_data) ==
    [k \in DOMAIN profile_data \cap {"first_name", "last_name", "email"} |->
        profile_data[k]]

\* find_one({"email": ..., "_id": {"$ne": user_id}})
email_in_use(email, user_id) ==
    \E v \in ExistingUsers \ {user_id} : users[v].email = email

\* {"$set": update_data} applied to one user document, on the fields the
\* model keeps
apply_profile_update(doc, update_data) ==
    [k \in DOMAIN doc |-> IF k \in DOMAIN update_data THEN update_data[k] ELSE doc[k]]

\* AuthService.update_user_preferences: only the preferences sub-document,
\* which the model does not keep, is written; the result is modified_count > 0
update_user_preferences(user_id, preferences) ==
    /\ resp' = Reply("update_preferences", 200, "OK", user_id, users[user_id] # NoUser)
    /\ UNCHANGED <<users, sessions, auth_tokens, premium_upgrades, issued, now, ticks, settings, retired, templates, stripe,
                   inflight>>

\* AuthService.change_password
change_password(user_id, current_password, new_password) ==
    /\ IF users[user_id] = NoUser
       THEN /\ resp' = Reply("change_password", 404, "User not found", user_id, None)
            /\ UNCHANGED users
       ELSE IF ~verify_password(current_password, users[user_id].hashed_password)
       THEN /\ resp' = Reply("change_password", 200, "OK", user_id, FALSE)
            /\ UNCHANGED users
       ELSE /\ users' = [users EXCEPT ![user_id].hashed_password =
                            get_password_hash(new_password)]
            /\ resp' = Reply("change_password", 200, "OK", user_id, TRUE)
    /\ UNCHANGED <<sessions, auth_tokens, premium_upgrades, issued, now, ticks, settings, retired, templates, stripe, inflight>>

\* AuthService.update_user_profile when nothing runs between its steps
update_user_profile(user_id, profile_data) ==
    LET update_data == profile_update_data(profile_data)
    IN /\ IF "email" \in DOMAIN update_data /\ email_in_use(update_data.email, user_id)
          THEN /\ resp' = Reply("update_profile", 400, "Email already in use", user_id, None)
               /\ UNCHANGED users
          ELSE IF users[user_id] = NoUser
          THEN /\ resp' = Reply("update_profile", 404, "User not found", user_id, None)
               /\ UNCHANGED users
          ELSE /\ users' = [users EXCEPT ![user_id] =
                              apply_profile_update(@, update_data)]
               /\ resp' = Reply("update_profile", 200, "OK", user_id, None)
       /\ UNCHANGED <<sessions, auth_tokens, premium_upgrades, issued, now, ticks, settings, retired, templates, stripe,
                      inflight>>

\* update_user_profile as the store operations it awaits: handler r's
\* find_one for the new email ...
update_user_profile_check(r, user_id, profile_data) ==
    LET update_data == profile_update_data(profile_data)
    IN /\ inflight[r] = Idle
       /\ IF "email" \in DOMAIN update_data /\ email_in_use(update_data.email, user_id)
          THEN /\ resp' = Reply("update_profile", 400, "Email already in use", user_id, None)
               /\ UNCHANGED inflight
          ELSE /\ inflight' = [inflight EXCEPT ![r] =
                                  [op |-> "update_user_profile", user_id |-> user_id,
                                   update_data |-> update_data]]
               /\ UNCHANGED resp
       /\ UNCHANGED <<users, sessions, auth_tokens, premium_upgrades, issued, now, ticks, settings, retired, templates, stripe>>

\* ... and its update_one
update_user_profile_write(r) ==
    /\ inflight[r] # Idle
    /\ inflight[r].op = "update_user_profile"
    /\ LET user_id == inflight[r].user_id
       IN IF users[user_id] = NoUser
          THEN /\ resp' = Reply("update_profile", 404, "User not found", user_id, None)
               /\ UNCHANGED users
          ELSE /\ users' = [users EXCEPT ![user_id] =
                              apply_profile_update(@, inflight[r].update_data)]
               /\ resp' = Reply("update_profile", 200, "OK", user_id, None)
    /\ inflight' = [inflight EXCEPT ![r] = Idle]
    /\ UNCHANGED <<sessions, auth_tokens, premium_upgrades, issued, now, ticks, settings, retired, templates, stripe>>

\* AuthService.authenticate_user: the user id, or 0 for "no match"
authenticate_user(email, password) ==
    LET u == find_by_email(email)
    IN IF u = 0 THEN 0
       ELSE IF ~verify_password(password, users[u].hashed_password) THEN 0
       ELSE u

\* the user-facing projection both token endpoints return
UserDetailsResponse(u) ==
    [id |-> u, email |-> users[u].email, role |-> users[u].role,
     is_active |-> users[u].is_active, is_verified |-> users[u].is_verified,
     is_premium |-> FALSE]

AuthResponse(access_token, refresh_token, u) ==
    [access_token |-> access_token, refresh_token |-> refresh_token,
     token_type |-> "bearer", expires_in |-> ACCESS_TOKEN_EXPIRE_MINUTES * 60,
     user |-> UserDetailsResponse(u)]

\* signin without the verified check
signin_result_no_verified_check(email, password) ==
    LET u == authenticate_user(email, password)
    IN IF u = 0
       THEN [code |-> 401, detail |-> "Invalid email or password", user |-> 0]
       ELSE IF ~users[u].is_active
       THEN [code |-> 401, detail |-> "Account is deactivated", user |-> u]
       ELSE [code |-> 200, detail |-> "OK", user |-> u]

\* signin with the verified check made before the active check
signin_result_verified_first(email, password) ==
    LET u == authenticate_user(email, password)
    IN IF u = 0
       THEN [code |-> 401, detail |-> "Invalid email or password", user |-> 0]
       ELSE IF ~users[u].is_verified
       THEN [code |-> 401, detail |-> "Email not verified", user |-> u]
       ELSE IF ~users[u].is_active
       THEN [code |-> 401, detail |-> "Account is deactivated", user |-> u]
       ELSE [code |-> 200, detail |-> "OK", user |-> u]

\* the checks of POST /signin, in the order the handler makes them
signin_result(email, password) ==
    LET u == authenticate_user(email, password)
    IN IF u = 0
       THEN [code |-> 401, detail |-> "Invalid email or password", user |-> 0]
       ELSE IF ~users[u].is_active
       THEN [code |-> 401, detail |-> "Account is deactivated", user |-> u]
       ELSE IF ~users[u].is_verified
       THEN [code |-> 401, detail |-> "Email not verified", user |-> u]
       ELSE [code |-> 200, detail |-> "OK", user |-> u]

\* the token pair AuthService.create_session mints for user_id
session_tokens(user_id) ==
    LET user_role == IF users[user_id] # NoUser THEN users[user_id].role ELSE "user"
        token_data == [user_id |-> user_id, role |-> user_role]
    IN [access_token |-> create_access_token(token_data, now),
        refresh_token |-> create_refresh_token(token_data, now)]

\* get_device_info: substring tests on the lower-cased User-Agent header; a
\* header is written as the set of the tested substrings it contains
get_device_info(user_agent) ==
    [browser |-> IF "chrome" \in user_agent THEN "Chrome"
                 ELSE IF "firefox" \in user_agent THEN "Firefox"
                 ELSE IF "safari" \in user_agent THEN "Safari"
                 ELSE IF "edge" \in user_agent THEN "Edge"
                 ELSE "Unknown",
     os |-> IF "windows" \in user_agent THEN "Windows"
            ELSE IF "mac" \in user_agent THEN "macOS"
            ELSE IF "linux" \in user_agent THEN "Linux"
            ELSE IF "android" \in user_agent THEN "Android"
            ELSE IF "ios" \in user_agent THEN "iOS"
            ELSE "Unknown",
     device |-> IF {"mobile", "android", "iphone"} \cap user_agent # {} THEN "Mobile"
                ELSE IF {"tablet", "ipad"} \cap user_agent # {} THEN "Tablet"
                ELSE "Desktop"]

\* AuthService.create_session: a Session row, then an AuthToken row
create_session(user_id, user_agent) ==
    LET sid == next_session_id
        pair == session_tokens(user_id)
    IN /\ sessions' = [sessions EXCEPT ![sid] =
                          [user_id |-> user_id, is_active |-> TRUE,
                           device_info |-> get_device_info(user_agent)]]
       /\ auth_tokens' = auth_tokens \cup
              {[session_id |-> sid, access_token |-> pair.access_token,
                refresh_token |-> pair.refresh_token,
                expires_at |-> now + ACCESS_TOKEN_EXPIRE_MINUTES,
                is_active |-> TRUE]}
       /\ issued' = issued \cup {pair.access_token, pair.refresh_token}

\* POST /signin with the User-Agent header the request carries
signin_request(email, password, user_agent) ==
    LET r == signin_result(email, password)
    IN /\ IF r.code = 200
          THEN /\ FreeSessionIds # {}
               /\ create_session(r.user, user_agent)
               /\ LET pair == session_tokens(r.user)
                  IN resp' = [Reply("signin", 200, r.detail, r.user,
                                    AuthResponse(pair.access_token,
                                                 pair.refresh_token, r.user))
                              EXCEPT !.cookies =
                                  response_set_cookie(pair.access_token,
                                                      pair.refresh_token)]
          ELSE /\ resp' = Reply("signin", r.code, r.detail, r.user, None)
               /\ UNCHANGED <<sessions, auth_tokens, issued>>
       /\ UNCHANGED <<users, premium_upgrades, now, ticks, settings, retired, templates, stripe, inflight>>

\* the AuthToken document create_session builds for a session
AuthTokenDocument(session_id, token_data, t) ==
    [session_id |-> session_id,
     access_token |-> create_access_token(token_data, t),
     refresh_token |-> create_refresh_token(token_data, t),
     expires_at |-> t + ACCESS_TOKEN_EXPIRE_MINUTES,
     is_active |-> TRUE]

\* create_session writing the AuthToken document where it should write the
\* Session document
signin_begin_token_first(r, email, password, user_agent) ==
    LET res == signin_result(email, password)
    IN /\ inflight[r] = Idle
       /\ res.code = 200
       /\ FreeSessionIds # {}
       /\ auth_tokens' = auth_tokens \cup
              {AuthTokenDocument(next_session_id,
                   [user_id |-> res.user, role |-> users[res.user].role], now)}
       /\ inflight' = [inflight EXCEPT ![r] =
              [op |-> "create_session", session_id |-> next_session_id,
               token_data |-> [user_id |-> res.user, role |-> users[res.user].role],
               user |-> UserDetailsResponse(res.user)]]
       /\ UNCHANGED <<users, sessions, premium_upgrades, issued, now, ticks, settings, retired, templates, stripe, resp>>

\* POST /signin as the store operations it awaits: handler r checks the
\* credentials and the flags, create_session reads the user's role and
\* inserts the Session document ...
signin_begin(r, email, password, user_agent) ==
    LET res == signin_result(email, password)
    IN /\ inflight[r] = Idle
       /\ IF res.code = 200
          THEN /\ FreeSessionIds # {}
               /\ sessions' = [sessions EXCEPT ![next_session_id] =
                      [user_id |-> res.user, is_active |-> TRUE,
                       device_info |-> get_device_info(user_agent)]]
               /\ inflight' = [inflight EXCEPT ![r] =
                      [op |-> "create_session", session_id |-> next_session_id,
                       token_data |-> [user_id |-> res.user,
                                       role |-> users[res.user].role],
                       user |-> UserDetailsResponse(res.user)]]
               /\ UNCHANGED resp
          ELSE /\ resp' = Reply("signin", res.code, res.detail, res.user, None)
               /\ UNCHANGED <<sessions, inflight>>
       /\ UNCHANGED <<users, auth_tokens, premium_upgrades, issued, now, ticks, settings, retired, templates, stripe>>

\* ... and, whatever happened in between, mints the pair, inserts the
\* AuthToken document and answers with the cookies set
signin_finish(r) ==
    /\ inflight[r] # Idle
    /\ inflight[r].op = "create_session"
    /\ LET doc == AuthTokenDocument(inflight[r].session_id, inflight[r].token_data, now)
       IN /\ auth_tokens' = auth_tokens \cup {doc}
          /\ issued' = issued \cup {doc.access_token, doc.refresh_token}
          /\ resp' = [Reply("signin", 200, "OK", inflight[r].token_data.user_id,
                            [access_token |-> doc.access_token,
                             refresh_token |-> doc.refresh_token,
                             token_type |-> "bearer",
                             expires_in |-> ACCESS_TOKEN_EXPIRE_MINUTES * 60,
                             user |-> inflight[r].user])
                      EXCEPT !.cookies =
                          response_set_cookie(doc.access_token, doc.refresh_token)]
    /\ inflight' = [inflight EXCEPT ![r] = Idle]
    /\ UNCHANGED <<users, sessions, premium_upgrades, now, ticks, settings, retired, templates, stripe>>

\* the process serving handler r dies: what it has written stays, the rest
\* of the handler never runs and the client gets no response
crash(r) ==
    /\ inflight[r] # Idle
    /\ inflight' = [inflight EXCEPT ![r] = Idle]
    /\ resp' = Reply("crash", 0, "", 0, None)
    /\ UNCHANGED <<users, sessions, auth_tokens, premium_upgrades, issued, now, ticks, settings, retired, templates, stripe>>

\* a sign-in without a User-Agent header (the handler then reads "")
signin(email, password) == signin_request(email, password, NoUserAgent)

(* ------------------------------ api/auth.py ---------------------------- *)
\* a get_current_user that does not look at is_active
get_current_user_ignores_is_active(access_token) ==
    LET payload == verify_token(access_token, JWT_SECRET_KEY, now)
    IN IF payload = None \/ payload.type # "access"
       THEN [code |-> 401, detail |-> "Invalid access token", id |-> 0, user |-> None]
       ELSE IF payload.user_id = 0
       THEN [code |-> 401, detail |-> "Invalid token payload", id |-> 0, user |-> None]
       ELSE IF users[payload.user_id] = NoUser
       THEN [code |-> 401, detail |-> "User not found or inactive",
             id |-> payload.user_id, user |-> None]
       ELSE [code |-> 200, detail |-> "OK", id |-> payload.user_id,
             user |-> UserDetailsResponse(payload.user_id)]

\* get_current_user: the dependency every protected route runs first
get_current_user(access_token) ==
    LET payload == verify_token(access_token, JWT_SECRET_KEY, now)
    IN IF payload = None \/ payload.type # "access"
       THEN [code |-> 401, detail |-> "Invalid access token", id |-> 0, user |-> None]
       ELSE IF payload.user_id = 0
       THEN [code |-> 401, detail |-> "Invalid token payload", id |-> 0, user |-> None]
       ELSE IF users[payload.user_id] = NoUser \/ ~users[payload.user_id].is_active
       THEN [code |-> 401, detail |-> "User not found or inactive",
             id |-> payload.user_id, user |-> None]
       ELSE [code |-> 200, detail |-> "OK", id |-> payload.user_id,
             user |-> UserDetailsResponse(payload.user_id)]

\* GET /details
get_user_details(access_token) ==
    LET cu == get_current_user(access_token)
    IN /\ resp' = Reply("details", cu.code, cu.detail, cu.id, cu.user)
       /\ UNCHANGED <<users, sessions, auth_tokens, premium_upgrades, issued, now, ticks, settings, retired, templates, stripe, inflight>>

\* update_one in place of update_many: only the first matching session
deactivate_first_session_only(user_id) ==
    LET m == {s \in ExistingSessions : sessions[s].user_id = user_id}
    IN IF m = {} THEN sessions
       ELSE [sessions EXCEPT ![CHOOSE s \in m : \A v \in m : s <= v].is_active = FALSE]

\* AuthService.deactivate_all_sessions: update_many({"user_id": user_id})
deactivate_all_sessions(user_id) ==
    [s \in SessionIds |->
        IF sessions[s] # NoSession /\ sessions[s].user_id = user_id
        THEN [sessions[s] EXCEPT !.is_active = FALSE]
        ELSE sessions[s]]

\* the filter without its user_id clause
session_matches_any_owner(session_id, user_id) ==
    session_id \in ExistingSessions

\* the filter of AuthService.deactivate_session:
\* {"_id": session_id, "user_id": user_id}
session_matches(session_id, user_id) ==
    /\ session_id \in ExistingSessions
    /\ sessions[session_id].user_id = user_id

\* a revoke that deletes the session record
deactivate_session_removes(session_id, user_id) ==
    IF session_matches(session_id, user_id)
    THEN [sessions EXCEPT ![session_id] = NoSession]
    ELSE sessions

\* AuthService.deactivate_session: update_one on the first match
deactivate_session(session_id, user_id) ==
    IF session_matches(session_id, user_id)
    THEN [sessions EXCEPT ![session_id].is_active = FALSE]
    ELSE sessions

\* POST /logout (DELETE /sessions runs the same service call)
logout(access_token) ==
    LET cu == get_current_user(access_token)
    IN /\ IF cu.code = 200
          THEN /\ sessions' = deactivate_all_sessions(cu.user.id)
               /\ resp' = Reply("logout", 200, "Logged out successfully",
                                cu.id, None)
          ELSE /\ resp' = Reply("logout", cu.code, cu.detail, cu.id, None)
               /\ UNCHANGED sessions
       /\ UNCHANGED <<users, auth_tokens, premium_upgrades, issued, now, ticks, settings, retired, templates, stripe, inflight>>

\* DELETE /sessions/{session_id}
logout_device(access_token, session_id) ==
    LET cu == get_current_user(access_token)
    IN /\ IF cu.code # 200
          THEN /\ resp' = Reply("logout_device", cu.code, cu.detail, cu.id, None)
               /\ UNCHANGED sessions
          ELSE /\ sessions' = deactivate_session(session_id, cu.user.id)
               /\ resp' = IF session_matches(session_id, cu.user.id)
                          THEN Reply("logout_device", 200,
                                     "Device logged out successfully", cu.id, session_id)
                          ELSE Reply("logout_device", 404, "Session not found",
                                     cu.id, session_id)
       /\ UNCHANGED <<users, auth_tokens, premium_upgrades, issued, now, ticks, settings, retired, templates, stripe, inflight>>

\* a refresh that copies the role out of the presented token
refresh_token_result_role_from_token(refresh_token) ==
    LET payload == verify_token(refresh_token, JWT_REFRESH_SECRET_KEY, now)
    IN IF payload = None \/ payload.type # "refresh"
       THEN [code |-> 401, detail |-> "Invalid refresh token", user |-> 0, out |-> None]
       ELSE IF users[payload.user_id] = NoUser \/ ~users[payload.user_id].is_active
       THEN [code |-> 401, detail |-> "User not found or inactive",
             user |-> payload.user_id, out |-> None]
       ELSE LET token_data == [user_id |-> payload.user_id, role |-> payload.role]
            IN [code |-> 200, detail |-> "OK", user |-> payload.user_id,
                out |-> AuthResponse(create_access_token(token_data, now),
                                     create_refresh_token(token_data, now),
                                     payload.user_id)]

\* the checks of POST /refresh-token and the pair it mints
refresh_token_result(refresh_token) ==
    LET payload == verify_token(refresh_token, JWT_REFRESH_SECRET_KEY, now)
    IN IF payload = None \/ payload.type # "refresh"
       THEN [code |-> 401, detail |-> "Invalid refresh token", user |-> 0, out |-> None]
       ELSE IF users[payload.user_id] = NoUser \/ ~users[payload.user_id].is_active
       THEN [code |-> 401, detail |-> "User not found or inactive",
             user |-> payload.user_id, out |-> None]
       ELSE LET token_data == [user_id |-> payload.user_id,
                               role |-> users[payload.user_id].role]
            IN [code |-> 200, detail |-> "OK", user |-> payload.user_id,
                out |-> AuthResponse(create_access_token(token_data, now),
                                     create_refresh_token(token_data, now),
                                     payload.user_id)]

\* a refresh that retires the AuthToken record holding the presented token
refresh_token_rotates(token) ==
    LET r == refresh_token_result(token)
    IN /\ resp' = Reply("refresh", r.code, r.detail, r.user, r.out)
       /\ issued' = IF r.code = 200
                    THEN issued \cup {r.out.access_token, r.out.refresh_token}
                    ELSE issued
       /\ auth_tokens' = IF r.code = 200
                         THEN {IF tk.refresh_token = token
                               THEN [tk EXCEPT !.is_active = FALSE] ELSE tk :
                                   tk \in auth_tokens}
                         ELSE auth_tokens
       /\ UNCHANGED <<users, sessions, premium_upgrades, now, ticks, settings, retired, templates, stripe, inflight>>

refresh_token(token) ==
    LET r == refresh_token_result(token)
    IN /\ resp' = IF r.code = 200
                  THEN [Reply("refresh", r.code, r.detail, r.user, r.out)
                        EXCEPT !.cookies =
                            response_set_cookie(r.out.access_token,
                                                r.out.refresh_token)]
                  ELSE Reply("refresh", r.code, r.detail, r.user, r.out)
       /\ issued' = IF r.code = 200
                    THEN issued \cup {r.out.access_token, r.out.refresh_token}
                    ELSE issued
       /\ UNCHANGED <<users, sessions, auth_tokens, premium_upgrades, now, ticks, settings, retired, templates, stripe, inflight>>

\* an answer that tells a missing account apart
forgot_password_response_reveals(email) ==
    IF find_by_email(email) = 0
    THEN Reply("forgot", 404, "User not found", 0, None)
    ELSE Reply("forgot", 200,
               "If the email exists, a password reset link has been sent", 0, None)

\* what POST /forgot answers: AuthService.forgot_password returns True on
\* both of its paths and the handler sends the same message after it
forgot_password_response(email) ==
    Reply("forgot", 200,
          "If the email exists, a password reset link has been sent", 0, None)

\* AuthService.forgot_password behind POST /forgot: the reset link is mailed
forgot_password(email) ==
    /\ issued' = IF find_by_email(email) # 0
                 THEN issued \cup {create_reset_token(email, now)}
                 ELSE issued
    /\ resp' = forgot_password_response(email)
    /\ UNCHANGED <<users, sessions, auth_tokens, premium_upgrades, now, ticks, settings, retired, templates, stripe, inflight>>

\* the decision of AuthService.reset_password for a presented token
reset_password_result(token) ==
    LET payload == verify_token(token, JWT_SECRET_KEY, now)
    IN IF payload = None \/ payload.type # "reset"
       THEN [code |-> 400, detail |-> "Invalid reset token", user |-> 0]
       ELSE IF find_by_email(payload.email) = 0
       THEN [code |-> 404, detail |-> "User not found", user |-> 0]
       ELSE [code |-> 200, detail |-> "Password reset successfully",
             user |-> find_by_email(payload.email)]

reset_password(token, new_password) ==
    LET r == reset_password_result(token)
    IN /\ users' = IF r.code = 200
                   THEN [users EXCEPT ![r.user].hashed_password =
                            get_password_hash(new_password)]
                   ELSE users
       /\ resp' = Reply("reset_password", r.code, r.detail, r.user,
                        IF r.code = 200 THEN token ELSE None)
       /\ UNCHANGED <<sessions, auth_tokens, premium_upgrades, issued, now, ticks, settings, retired, templates, stripe, inflight>>

\* a $group stage's {"$sum": ...}: the documents' contributions added up
RECURSIVE group_sum(_, _)
group_sum(docs, contribution) ==
    IF docs = {} THEN 0
    ELSE LET d == CHOOSE x \in docs : TRUE
         IN contribution[d] + group_sum(docs \ {d}, contribution)

\* the $match stage shared by the three pipelines of get_session_stats
match_user_id(user_id) ==
    {s \in ExistingSessions : sessions[s].user_id = user_id}

\* get_session_stats with the $match stage left out of its pipelines
get_session_stats_result_unmatched(user_id) ==
    LET docs == ExistingSessions
        one == [s \in docs |-> 1]
        devices == {sessions[s].device_info.device : s \in docs}
        browsers == {sessions[s].device_info.browser : s \in docs}
    IN [total_sessions |-> group_sum(docs, one),
        active_sessions |->
            group_sum(docs, [s \in docs |-> IF sessions[s].is_active THEN 1 ELSE 0]),
        inactive_sessions |->
            group_sum(docs, [s \in docs |-> IF sessions[s].is_active THEN 0 ELSE 1]),
        sessions_by_device |->
            [d \in devices |->
                group_sum({s \in docs : sessions[s].device_info.device = d}, one)],
        sessions_by_browser |->
            [b \in browsers |->
                group_sum({s \in docs : sessions[s].device_info.browser = b}, one)]]

\* AuthService.get_session_stats: a $group over the user's sessions for the
\* three counts (no group at all, hence the zero defaults, when the user has
\* no session), one per device and one per browser for the breakdowns
get_session_stats_result(user_id) ==
    LET docs == match_user_id(user_id)
        one == [s \in docs |-> 1]
        devices == {sessions[s].device_info.device : s \in docs}
        browsers == {sessions[s].device_info.browser : s \in docs}
    IN [total_sessions |-> IF docs = {} THEN 0 ELSE group_sum(docs, one),
        active_sessions |->
            IF docs = {} THEN 0
            ELSE group_sum(docs, [s \in docs |-> IF sessions[s].is_active THEN 1 ELSE 0]),
        inactive_sessions |->
            IF docs = {} THEN 0
            ELSE group_sum(docs, [s \in docs |-> IF sessions[s].is_active THEN 0 ELSE 1]),
        sessions_by_device |->
            [d \in devices |->
                group_sum({s \in docs : sessions[s].device_info.device = d}, one)],
        sessions_by_browser |->
            [b \in browsers |->
                group_sum({s \in docs : sessions[s].device_info.browser = b}, one)]]

\* GET /sessions/stats
get_session_stats(access_token) ==
    LET cu == get_current_user(access_token)
    IN /\ resp' = IF cu.code = 200
                  THEN Reply("session_stats", 200, "OK", cu.id,
                             get_session_stats_result(cu.user.id))
                  ELSE Reply("session_stats", cu.code, cu.detail, cu.id, None)
       /\ UNCHANGED <<users, sessions, auth_tokens, premium_upgrades, issued, now, ticks, settings, retired, templates, stripe, inflight>>

\* tokens_collection.delete_many({"user_id": ...}): what is left are the
\* documents without a user_id field of that value
delete_user_account_tokens(user_id) ==
    {tk \in auth_tokens : ~("user_id" \in DOMAIN tk /\ tk.user_id = user_id)}

\* AuthService.delete_user_account: the user's sessions flagged inactive,
\* then the three deletes
delete_user_account(user_id) ==
    LET flagged == deactivate_all_sessions(user_id)
        mine == {s \in SessionIds :
                    flagged[s] # NoSession /\ flagged[s].user_id = user_id}
    IN /\ auth_tokens' = delete_user_account_tokens(user_id)
       /\ sessions' = [s \in SessionIds |->
                          IF s \in mine THEN NoSession ELSE flagged[s]]
       /\ users' = [users EXCEPT ![user_id] = NoUser]
       /\ retired' = [users |-> IF users[user_id] # NoUser
                                THEN retired.users \cup {user_id}
                                ELSE retired.users,
                      sessions |-> retired.sessions \cup mine,
                      templates |-> retired.templates]
       /\ resp' = Reply("delete_account", 0, "", user_id, users[user_id] # NoUser)
       /\ UNCHANGED <<premium_upgrades, issued, now, ticks, settings, inflight, templates, stripe>>

(* --------------------------- middleware/premium.py --------------------- *)
\* require_premium_access: get_current_user, then the role / is_premium test
\* on the UserDetailsResponse that dependency returned
require_premium_access(access_token) ==
    LET cu == get_current_user(access_token)
    IN IF cu.code # 200 THEN cu
       ELSE IF cu.user.role = "admin" THEN cu
       ELSE IF ~cu.user.is_premium
       THEN [code |-> 402, detail |-> "upgrade_required", id |-> cu.id, user |-> None]
       ELSE cu

(* --------------------------- api/templates.py -------------------------- *)
\* GET /{template_id}/download, for a template whose file is on disk
download_template(access_token) ==
    LET g == require_premium_access(access_token)
    IN /\ resp' = Reply("download", g.code, g.detail, g.id, None)
       /\ UNCHANGED <<users, sessions, auth_tokens, premium_upgrades, issued, now, ticks, settings, retired, templates, stripe, inflight>>

\* POST /{template_id}/check-screenshot: re-reads is_premium from the store
check_screenshot_result(access_token) ==
    LET cu == get_current_user(access_token)
    IN IF cu.code # 200 THEN cu
       ELSE LET is_premium == users[cu.id].is_premium
            IN IF ~(cu.user.role = "admin" \/ is_premium)
               THEN [code |-> 402, detail |-> "upgrade_required", id |-> cu.id,
                     user |-> None]
               ELSE [code |-> 200,
                     detail |-> IF is_premium THEN "premium" ELSE "admin",
                     id |-> cu.id, user |-> cu.user]

check_screenshot_permission(access_token) ==
    LET g == check_screenshot_result(access_token)
    IN /\ resp' = Reply("check_screenshot", g.code, g.detail, g.id, None)
       /\ UNCHANGED <<users, sessions, auth_tokens, premium_upgrades, issued, now, ticks, settings, retired, templates, stripe, inflight>>

\* GET /uploads/{filename} for an image file that belongs to a template and
\* is on disk: the original for a user whose stored is_premium is set, a
\* resized, blurred JPEG for everybody else
serve_protected_file_result(access_token) ==
    LET cu == get_current_user(access_token)
    IN IF cu.code # 200 THEN cu
       ELSE LET is_premium == users[cu.id].is_premium
            IN [code |-> 200,
                detail |-> IF is_premium THEN "original" ELSE "degraded",
                id |-> cu.id, user |-> cu.user]

serve_protected_file(access_token) ==
    LET g == serve_protected_file_result(access_token)
    IN /\ resp' = Reply("serve_file", g.code, g.detail, g.id, None)
       /\ UNCHANGED <<users, sessions, auth_tokens, premium_upgrades, issued, now, ticks, settings, retired, templates, stripe, inflight>>

\* PremiumAccessControl.get_access_info on the object get_current_user built
get_access_info(user) ==
    LET has_premium == user.role = "admin" \/ user.is_premium
    IN [has_premium_access |-> has_premium, can_download |-> has_premium,
        can_screenshot |-> has_premium, role |-> user.role,
        upgrade_required |-> ~has_premium /\ user.role # "admin"]

\* the handler of GET /access-info: get_access_info, then is_premium and the
\* three access fields overwritten from the stored is_premium
get_template_access_info_result(access_token) ==
    LET cu == get_current_user(access_token)
    IN IF cu.code # 200 THEN cu
       ELSE LET is_premium == users[cu.id].is_premium
                has_access == is_premium \/ cu.user.role = "admin"
            IN [code |-> 200, detail |-> "OK", id |-> cu.id,
                user |-> [get_access_info(cu.user) EXCEPT
                             !.has_premium_access = has_access,
                             !.can_download = has_access,
                             !.can_screenshot = has_access]
                         @@ [is_premium |-> is_premium]]

\* get_current_admin: get_current_user, then the role of the object it built
get_current_admin(access_token) ==
    LET cu == get_current_user(access_token)
    IN IF cu.code # 200 THEN cu
       ELSE IF cu.user.role # "admin"
       THEN [code |-> 403, detail |-> "Admin access required", id |-> cu.id,
             user |-> None]
       ELSE cu

\* ObjectId() of a new template document: never one that was handed out before
FreeTemplateIds ==
    {i \in TemplateIds : templates[i] = NoTemplate /\ i \notin retired.templates}

next_template_id == CHOOSE i \in FreeTemplateIds : \A j \in FreeTemplateIds : i <= j

\* POST /templates/: get_current_admin, upload_image (400 for a file of a
\* type or size that is not allowed), then TemplateService.create_template
create_template(access_token, title, image_ok) ==
    LET g == get_current_admin(access_token)
    IN /\ FreeTemplateIds # {}
       /\ IF g.code # 200
          THEN /\ resp' = Reply("create_template", g.code, g.detail, g.id, None)
               /\ UNCHANGED templates
          ELSE IF ~image_ok
          THEN /\ resp' = Reply("create_template", 400, "File not allowed", g.id, None)
               /\ UNCHANGED templates
          ELSE /\ templates' = [templates EXCEPT ![next_template_id] =
                                   [title |-> title, uploaded_by |-> g.id,
                                    updated_at |-> now]]
               /\ resp' = Reply("create_template", 200, "OK", g.id, next_template_id)
       /\ UNCHANGED <<users, sessions, auth_tokens, premium_upgrades, issued, now,
                      ticks, settings, retired, inflight, stripe>>

(* ---------------------- services/template_service.py ------------------- *)
\* the test both TemplateService.update_template and delete_template make
\* after they found the template: the uploader, or a user whose stored role
\* is admin
may_change_template_anyone(template, user_id) == TRUE

may_change_template(template, user_id) ==
    \/ template.uploaded_by = user_id
    \/ users[user_id] # NoUser /\ users[user_id].role = "admin"

\* TemplateService.update_template: None for a template that is not there and
\* for an update_one that modified nothing, 403 for a caller who may not
\* change it, else the document with the fields that were set and updated_at
update_template_result(template_id, template_data, user_id) ==
    IF template_id \notin TemplateIds
    THEN [code |-> 500, detail |-> "Internal Server Error", template |-> NoTemplate]
    ELSE IF templates[template_id] = NoTemplate
    THEN [code |-> 404, detail |-> "Template not found", template |-> NoTemplate]
    ELSE IF ~may_change_template(templates[template_id], user_id)
    THEN [code |-> 403, detail |-> "Not authorized to update this template",
          template |-> templates[template_id]]
    ELSE LET old == templates[template_id]
             doc == [title |-> IF template_data = Unset THEN old.title
                               ELSE template_data,
                     uploaded_by |-> old.uploaded_by,
                     updated_at |-> now]
         IN IF doc = old
            THEN [code |-> 404, detail |-> "Template not found", template |-> old]
            ELSE [code |-> 200, detail |-> "OK", template |-> doc]

\* TemplateService.delete_template: False for a template that is not there,
\* 403 for a caller who may not change it, else delete_one
delete_template_result(template_id, user_id) ==
    IF template_id \notin TemplateIds
    THEN [code |-> 500, detail |-> "Internal Server Error", template |-> NoTemplate]
    ELSE IF templates[template_id] = NoTemplate
    THEN [code |-> 404, detail |-> "Template not found", template |-> NoTemplate]
    ELSE IF ~may_change_template(templates[template_id], user_id)
    THEN [code |-> 403, detail |-> "Not authorized to delete this template",
          template |-> templates[template_id]]
    ELSE [code |-> 200, detail |-> "Template deleted successfully",
          template |-> NoTemplate]

(* --------------------------- api/templates.py (2) ---------------------- *)
\* PUT /templates/{template_id}
update_template(access_token, template_id, template_data) ==
    LET cu == get_current_user(access_token)
        g == update_template_result(template_id, template_data, cu.id)
    IN /\ IF cu.code # 200
          THEN /\ resp' = Reply("update_template", cu.code, cu.detail, cu.id,
                                template_id)
               /\ UNCHANGED templates
          ELSE /\ resp' = Reply("update_template", g.code, g.detail, cu.id,
                                template_id)
               /\ templates' = IF g.code = 200
                               THEN [templates EXCEPT ![template_id] = g.template]
                               ELSE templates
       /\ UNCHANGED <<users, sessions, auth_tokens, premium_upgrades, issued, now,
                      ticks, settings, retired, inflight, stripe>>

\* DELETE /templates/{template_id}
delete_template(access_token, template_id) ==
    LET cu == get_current_user(access_token)
        g == delete_template_result(template_id, cu.id)
    IN /\ IF cu.code # 200
          THEN /\ resp' = Reply("delete_template", cu.code, cu.detail, cu.id,
                                template_id)
               /\ UNCHANGED <<templates, retired>>
          ELSE /\ resp' = Reply("delete_template", g.code, g.detail, cu.id,
                                template_id)
               /\ templates' = IF g.code = 200
                               THEN [templates EXCEPT ![template_id] = NoTemplate]
                               ELSE templates
               /\ retired' = IF g.code = 200
                             THEN [retired EXCEPT !.templates = @ \cup {template_id}]
                             ELSE retired
       /\ UNCHANGED <<users, sessions, auth_tokens, premium_upgrades, issued, now,
                      ticks, settings, inflight, stripe>>

(* ----------------------------- api/stripe.py --------------------------- *)
\* handle_checkout_session_completed, reached from POST /webhook with a
\* checkout.session.completed event whose metadata names user_id
handle_checkout_session_completed(user_id) ==
    /\ IF users[user_id] # NoUser
       THEN /\ premium_upgrades[user_id] < MaxUpgrades
            /\ users' = [users EXCEPT ![user_id].is_premium = TRUE]
            /\ premium_upgrades' = [premium_upgrades EXCEPT ![user_id] = @ + 1]
       ELSE UNCHANGED <<users, premium_upgrades>>
    /\ resp' = Reply("webhook", 200, "success", user_id, None)
    /\ UNCHANGED <<sessions, auth_tokens, issued, now, ticks, settings, retired, templates, stripe, inflight>>

\* the outcomes of the calls to Stripe in one request: none fails,
\* Customer.create raises StripeError, or checkout.Session.create does
StripeFailures == {"never", "customer", "session"}

\* POST /create-checkout-session.  The whole body is one try block: the
\* HTTPException(400) raised for a premium user is no StripeError, so that
\* "except Exception" catches it and answers 500
create_checkout_session(access_token, stripe_fails) ==
    LET cu == get_current_user(access_token)
    IN /\ IF cu.code # 200
          THEN /\ resp' = Reply("create_checkout", cu.code, cu.detail, cu.id, None)
               /\ UNCHANGED <<users, stripe>>
          ELSE IF users[cu.id].is_premium
          THEN /\ resp' = Reply("create_checkout", 500,
                                "Failed to create checkout session", cu.id, None)
               /\ UNCHANGED <<users, stripe>>
          ELSE LET known == users[cu.id].stripe_customer_id
                   customer_id == IF known # 0 THEN known
                                  ELSE Cardinality(stripe.customers) + 1
                   customers == IF known # 0 THEN stripe.customers
                                ELSE stripe.customers \cup
                                         {[id |-> customer_id, user_id |-> cu.id]}
                   session_id == Cardinality(stripe.checkout_sessions) + 1
               IN IF known = 0 /\ stripe_fails = "customer"
                  THEN /\ resp' = Reply("create_checkout", 400,
                                        "Payment processing error", cu.id, None)
                       /\ UNCHANGED <<users, stripe>>
                  ELSE IF stripe_fails = "session"
                  THEN /\ users' = [users EXCEPT
                                       ![cu.id].stripe_customer_id = customer_id]
                       /\ stripe' = [stripe EXCEPT !.customers = customers]
                       /\ resp' = Reply("create_checkout", 400,
                                        "Payment processing error", cu.id, None)
                  ELSE /\ Cardinality(stripe.checkout_sessions) < MaxCheckouts
                       /\ users' = [users EXCEPT
                                       ![cu.id].stripe_customer_id = customer_id]
                       /\ stripe' = [customers |-> customers,
                                     checkout_sessions |->
                                         stripe.checkout_sessions \cup
                                             {[id |-> session_id,
                                               customer |-> customer_id,
                                               user_id |-> cu.id]}]
                       /\ resp' = Reply("create_checkout", 200, "OK", cu.id,
                                        session_id)
       /\ UNCHANGED <<sessions, auth_tokens, premium_upgrades, issued, now, ticks,
                      settings, retired, templates, inflight>>

\* GET /verify-session/{session_id} for the Stripe checkout session created
\* for user owner, paid or not
verify_session(access_token, owner, paid) ==
    LET cu == get_current_user(access_token)
    IN /\ IF cu.code # 200
          THEN /\ resp' = Reply("verify_session", cu.code, cu.detail, cu.id, None)
               /\ UNCHANGED <<users, premium_upgrades>>
          ELSE IF owner # cu.id
          THEN \* the 403 is raised inside the try block and caught by
               \* "except Exception", which answers 500
               /\ resp' = Reply("verify_session", 500, "Failed to verify session",
                                cu.id, None)
               /\ UNCHANGED <<users, premium_upgrades>>
          ELSE IF paid /\ ~users[cu.id].is_premium
          THEN /\ premium_upgrades[cu.id] < MaxUpgrades
               /\ users' = [users EXCEPT ![cu.id].is_premium = TRUE]
               /\ premium_upgrades' = [premium_upgrades EXCEPT ![cu.id] = @ + 1]
               /\ resp' = Reply("verify_session", 200, "auto-upgraded", cu.id, TRUE)
          ELSE /\ resp' = Reply("verify_session", 200, "status", cu.id,
                                users[cu.id].is_premium)
               /\ UNCHANGED <<users, premium_upgrades>>
       /\ UNCHANGED <<sessions, auth_tokens, issued, now, ticks, settings, retired, templates, stripe, inflight>>

\* handle_checkout_session_completed as its two store operations, for a
\* delivery of the checkout.session.completed event of the paid checkout
\* session of user_id.  update_one: premium_activated_at and updated_at take
\* the current time, so the document is modified whenever it exists
handle_checkout_session_completed_update(r, user_id) ==
    /\ inflight[r] = Idle
    /\ IF users[user_id] = NoUser
       THEN /\ resp' = Reply("webhook", 200, "success", user_id, None)
            /\ UNCHANGED <<users, inflight>>
       ELSE /\ users' = [users EXCEPT ![user_id].is_premium = TRUE]
            /\ inflight' = [inflight EXCEPT ![r] =
                               [op |-> "webhook", user_id |-> user_id,
                                step |-> "insert"]]
            /\ UNCHANGED resp
    /\ UNCHANGED <<sessions, auth_tokens, premium_upgrades, issued, now, ticks,
                   settings, retired, templates, stripe>>

\* ... and the insert_one into premium_upgrades that follows a modifying update
handle_checkout_session_completed_insert(r) ==
    /\ inflight[r] # Idle
    /\ inflight[r].op = "webhook"
    /\ LET user_id == inflight[r].user_id
       IN /\ premium_upgrades[user_id] < MaxUpgrades
          /\ premium_upgrades' = [premium_upgrades EXCEPT ![user_id] = @ + 1]
          /\ resp' = Reply("webhook", 200, "success", user_id, None)
    /\ inflight' = [inflight EXCEPT ![r] = Idle]
    /\ UNCHANGED <<users, sessions, auth_tokens, issued, now, ticks, settings,
                   retired, templates, stripe>>

\* verify_session for the paid checkout session of user owner, as its three
\* store operations: the find_one that reads is_premium ...
verify_session_read(r, access_token, owner) ==
    LET cu == get_current_user(access_token)
    IN /\ inflight[r] = Idle
       /\ IF cu.code # 200
          THEN /\ resp' = Reply("verify_session", cu.code, cu.detail, cu.id, None)
               /\ UNCHANGED inflight
          ELSE IF owner # cu.id
          THEN /\ resp' = Reply("verify_session", 500, "Failed to verify session",
                                cu.id, None)
               /\ UNCHANGED inflight
          ELSE IF ~users[cu.id].is_premium
          THEN /\ inflight' = [inflight EXCEPT ![r] =
                                  [op |-> "verify_session", user_id |-> cu.id,
                                   step |-> "update"]]
               /\ UNCHANGED resp
          ELSE /\ resp' = Reply("verify_session", 200, "status", cu.id, TRUE)
               /\ UNCHANGED inflight
       /\ UNCHANGED <<users, sessions, auth_tokens, premium_upgrades, issued, now,
                      ticks, settings, retired, templates, stripe>>

\* ... the update_one, entered because that read saw no premium flag ...
verify_session_update(r) ==
    /\ inflight[r] # Idle
    /\ inflight[r].op = "verify_session"
    /\ inflight[r].step = "update"
    /\ LET user_id == inflight[r].user_id
       IN IF users[user_id] = NoUser
          THEN /\ resp' = Reply("verify_session", 200, "status", user_id, FALSE)
               /\ inflight' = [inflight EXCEPT ![r] = Idle]
               /\ UNCHANGED users
          ELSE /\ users' = [users EXCEPT ![user_id].is_premium = TRUE]
               /\ inflight' = [inflight EXCEPT ![r].step = "insert"]
               /\ UNCHANGED resp
    /\ UNCHANGED <<sessions, auth_tokens, premium_upgrades, issued, now, ticks,
                   settings, retired, templates, stripe>>

\* ... and the insert_one into premium_upgrades
verify_session_insert(r) ==
    /\ inflight[r] # Idle
    /\ inflight[r].op = "verify_session"
    /\ inflight[r].step = "insert"
    /\ LET user_id == inflight[r].user_id
       IN /\ premium_upgrades[user_id] < MaxUpgrades
          /\ premium_upgrades' = [premium_upgrades EXCEPT ![user_id] = @ + 1]
          /\ resp' = Reply("verify_session", 200, "auto-upgraded", user_id, TRUE)
    /\ inflight' = [inflight EXCEPT ![r] = Idle]
    /\ UNCHANGED <<users, sessions, auth_tokens, issued, now, ticks, settings,
                   retired, templates, stripe>>

\* GET /user-access-info
get_user_access_info_result(access_token) ==
    LET cu == get_current_user(access_token)
    IN IF cu.code # 200 THEN cu
       ELSE LET is_premium == users[cu.id].is_premium
                has_access == is_premium \/ cu.user.role = "admin"
            IN [code |-> 200, detail |-> "OK", id |-> cu.id,
                user |-> [user_id |-> cu.id, email |-> cu.user.email,
                          role |-> cu.user.role, is_premium |-> is_premium,
                          has_premium_access |-> has_access,
                          can_download |-> has_access,
                          can_screenshot |-> has_access,
                          upgrade_required |-> ~has_access]]

get_user_access_info(access_token) ==
    LET g == get_user_access_info_result(access_token)
    IN /\ resp' = Reply("access_info", g.code, g.detail, g.id, g.user)
       /\ UNCHANGED <<users, sessions, auth_tokens, premium_upgrades, issued, now, ticks, settings, retired, templates, stripe, inflight>>

(* ------------------------------ api/admin.py --------------------------- *)
\* POST /users/{user_id}/toggle-status behind get_current_admin_user
toggle_user_status_result(access_token, user_id) ==
    LET cu == get_current_user(access_token)
    IN IF cu.code # 200 THEN [code |-> cu.code, detail |-> cu.detail, id |-> cu.id]
       ELSE IF cu.user.role # "admin"
       THEN [code |-> 403, detail |-> "Admin access required", id |-> cu.id]
       ELSE IF users[user_id] = NoUser
       THEN [code |-> 404, detail |-> "User not found", id |-> cu.id]
       \* user["_id"] (an ObjectId) never equals current_admin.id (a str), so
       \* every admin target is refused, the caller's own account included
       ELSE IF users[user_id].role = "admin"
       THEN [code |-> 403, detail |-> "Cannot modify other admin users", id |-> cu.id]
       ELSE [code |-> 200, detail |-> "toggled", id |-> cu.id]

toggle_user_status(access_token, user_id) ==
    LET r == toggle_user_status_result(access_token, user_id)
    IN /\ users' = IF r.code = 200
                   THEN [users EXCEPT ![user_id].is_active = ~@]
                   ELSE users
       /\ resp' = Reply("toggle_status", r.code, r.detail, r.id, user_id)
       /\ UNCHANGED <<sessions, auth_tokens, premium_upgrades, issued, now, ticks, settings, retired, templates, stripe, inflight>>

(* ------------------------------ create_admin.py ------------------------ *)
\* create_admin_user, run by ensure_admin_exists at every application start
create_admin_user ==
    /\ IF \E u \in ExistingUsers : users[u].role = "admin"
       THEN /\ UNCHANGED users
            /\ resp' = Reply("create_admin", 0, "exists", 0, None)
       ELSE IF find_by_email(ADMIN_EMAIL) # 0
       THEN /\ users' = [users EXCEPT ![find_by_email(ADMIN_EMAIL)] =
                            [@ EXCEPT !.role = "admin", !.is_verified = TRUE,
                                      !.is_active = TRUE]]
            /\ resp' = Reply("create_admin", 0, "updated",
                             find_by_email(ADMIN_EMAIL), None)
       ELSE /\ FreeUserIds # {}
            /\ users' = [users EXCEPT ![next_user_id] =
                  [email |-> ADMIN_EMAIL,
                   hashed_password |-> get_password_hash(ADMIN_PASSWORD),
                   role |-> "admin", is_active |-> TRUE, is_verified |-> TRUE,
                   is_premium |-> FALSE, stripe_customer_id |-> 0,
                   verification_token |-> None,
                   verification_token_expires |-> None]]
            /\ resp' = Reply("create_admin", 0, "created", next_user_id, None)
    /\ UNCHANGED <<sessions, auth_tokens, premium_upgrades, issued, now, ticks, settings, retired, templates, stripe, inflight>>

(* -------------------------------- clock -------------------------------- *)
Tick(d) ==
    /\ ticks < MaxTicks
    /\ now' = now + d
    /\ ticks' = ticks + 1
    /\ resp' = Reply("tick", 0, "", 0, None)
    /\ UNCHANGED <<users, sessions, auth_tokens, premium_upgrades, issued, inflight,
                   settings, retired, templates, stripe>>

Init ==
    /\ users = [u \in UserIds |-> NoUser]
    /\ sessions = [s \in SessionIds |-> NoSession]
    /\ auth_tokens = {}
    /\ premium_upgrades = [u \in UserIds |-> 0]
    /\ issued = {}
    /\ now = 0
    /\ ticks = 0
    /\ resp = Reply("none", 0, "", 0, None)
    /\ inflight = [r \in Requests |-> Idle]
    /\ settings = DefaultSettings
    /\ retired = [users |-> {}, sessions |-> {}, templates |-> {}]
    /\ templates = [i \in TemplateIds |-> NoTemplate]
    /\ stripe = [customers |-> {}, checkout_sessions |-> {}]

\* the state after start-up under any of the configurations
InitAnySettings ==
    /\ users = [u \in UserIds |-> NoUser]
    /\ sessions = [s \in SessionIds |-> NoSession]
    /\ auth_tokens = {}
    /\ premium_upgrades = [u \in UserIds |-> 0]
    /\ issued = {}
    /\ now = 0
    /\ ticks = 0
    /\ resp = Reply("none", 0, "", 0, None)
    /\ inflight = [r \in Requests |-> Idle]
    /\ settings \in SettingsChoices
    /\ retired = [users |-> {}, sessions |-> {}, templates |-> {}]
    /\ templates = [i \in TemplateIds |-> NoTemplate]
    /\ stripe = [customers |-> {}, checkout_sessions |-> {}]

\* tokens a client can present: every token string the service has handed
\* out so far, or one it never signed
Presentable == issued \cup {Garbage}

Next ==
    \/ create_admin_user
    \/ \E e \in Emails, p \in Passwords : signup(e, p)
    \/ \E t \in Presentable : verify_email(t)
    \/ \E e \in Emails, p \in Passwords : signin(e, p)
    \/ \E t \in Presentable : get_user_details(t)
    \/ \E t \in Presentable : logout(t)
    \/ \E t \in Presentable, s \in SessionIds : logout_device(t, s)
    \/ \E t \in Presentable : refresh_token(t)
    \/ \E e \in Emails : forgot_password(e)
    \/ \E t \in Presentable, p \in Passwords : reset_password(t, p)
    \/ \E t \in Presentable : download_template(t)
    \/ \E t \in Presentable : check_screenshot_permission(t)
    \/ \E u \in UserIds : handle_checkout_session_completed(u)
    \/ \E t \in Presentable, u \in UserIds, paid \in BOOLEAN : verify_session(t, u, paid)
    \/ \E t \in Presentable, u \in UserIds : toggle_user_status(t, u)
    \/ \E d \in TickSteps : Tick(d)

Spec == Init /\ [][Next]_vars

\* account life cycle and sign-in
NextSignin ==
    \/ create_admin_user
    \/ \E e \in Emails, p \in Passwords : signup(e, p)
    \/ \E t \in Presentable : verify_email(t)
    \/ \E e \in Emails, p \in Passwords : signin(e, p)
    \/ \E t \in Presentable, u \in UserIds : toggle_user_status(t, u)
    \/ \E e \in Emails : forgot_password(e)
    \/ \E t \in Presentable, p \in Passwords : reset_password(t, p)

SpecSignin == Init /\ [][NextSignin]_vars

\* the premium gate
NextPremium ==
    \/ create_admin_user
    \/ \E e \in Emails, p \in Passwords : signup(e, p)
    \/ \E t \in Presentable : verify_email(t)
    \/ \E e \in Emails, p \in Passwords : signin(e, p)
    \/ \E t \in Presentable : download_template(t)
    \/ \E t \in Presentable : check_screenshot_permission(t)
    \/ \E u \in UserIds : handle_checkout_session_completed(u)
    \/ \E t \in Presentable, u \in UserIds, paid \in BOOLEAN : verify_session(t, u, paid)

SpecPremium == Init /\ [][NextPremium]_vars

\* the session registry
NextSessions ==
    \/ \E e \in Emails, p \in Passwords : signup(e, p)
    \/ \E t \in Presentable : verify_email(t)
    \/ \E e \in Emails, p \in Passwords : signin(e, p)
    \/ \E t \in Presentable : get_user_details(t)
    \/ \E t \in Presentable : logout(t)
    \/ \E t \in Presentable, s \in SessionIds : logout_device(t, s)

SpecSessions == Init /\ [][NextSessions]_vars

\* token refresh: expiry, and the account changes a refresh re-reads
NextRefresh ==
    \/ create_admin_user
    \/ \E e \in Emails : signup(e, ADMIN_PASSWORD)
    \/ \E t \in Presentable : verify_email(t)
    \/ \E e \in Emails : signin(e, ADMIN_PASSWORD)
    \/ \E t \in Presentable : refresh_token(t)
    \/ \E t \in Presentable, u \in UserIds : toggle_user_status(t, u)
    \/ \E d \in TickSteps : Tick(d)

SpecRefresh == Init /\ [][NextRefresh]_vars

\* the four token types and the four consumers of a decoded token
NextTokens ==
    \/ \E e \in Emails, p \in Passwords : signup(e, p)
    \/ \E t \in Presentable : verify_email(t)
    \/ \E e \in Emails, p \in Passwords : signin(e, p)
    \/ \E t \in Presentable : get_user_details(t)
    \/ \E t \in Presentable : refresh_token(t)
    \/ \E e \in Emails : forgot_password(e)
    \/ \E t \in Presentable, p \in Passwords : reset_password(t, p)

SpecTokens == Init /\ [][NextTokens]_vars

\* e-mail verification: the signup token, a re-sent one, and their expiry
NextVerify ==
    \/ create_admin_user
    \/ \E e \in Emails : signup(e, ADMIN_PASSWORD)
    \/ \E t \in Presentable : verify_email(t)
    \/ \E e \in Emails : resend_verification(e)
    \/ \E d \in VerifyTickSteps : Tick(d)

SpecVerify == Init /\ [][NextVerify]_vars

\* what a profile update may carry: a new email, a role, or both
ProfileData == {[email |-> "alice@example.com"], [role |-> "admin"],
                [email |-> ADMIN_EMAIL, role |-> "admin"]}
\* preference documents, one with a key outside allowed_preferences
Preferences == {[theme |-> "dark"], [theme |-> "dark", role |-> "admin"]}

\* concurrent handlers: signups and profile updates whose store operations
\* interleave
NextConcurrent ==
    \/ \E r \in Requests, e \in Emails :
          create_user_check(r, SignUpRequest([email |-> e, password |-> ADMIN_PASSWORD]))
    \/ \E r \in Requests : create_user_insert(r)
    \/ \E r \in Requests, u \in UserIds, d \in ProfileData :
          update_user_profile_check(r, u, d)
    \/ \E r \in Requests : update_user_profile_write(r)

SpecConcurrent == Init /\ [][NextConcurrent]_vars

\* signup bodies: well-formed ones, one with a password under the minimum
\* length, and one that smuggles a role
ShortPassword == <<"s", "h", "o", "r", "t">>
SignupBodies ==
    [email : Emails, password : Passwords \cup {ShortPassword}]
        \cup {[email |-> e, password |-> ADMIN_PASSWORD, role |-> "admin"] : e \in Emails}

\* registration: signups whose verification mail may or may not go out
NextSignup ==
    \/ \E b \in SignupBodies, delivered \in BOOLEAN : signup_request(b, delivered)
    \/ \E t \in Presentable : verify_email(t)
    \/ \E e \in Emails : resend_verification(e)
    \/ \E e \in Emails, p \in Passwords : signin(e, p)

SpecSignup == Init /\ [][NextSignup]_vars

\* what users do to their own account
NextProfile ==
    \/ \E b \in {x \in SignupBodies : x.password = ADMIN_PASSWORD} :
          signup_request(b, TRUE)
    \/ \E t \in Presentable : verify_email(t)
    \/ \E e \in Emails : signin(e, ADMIN_PASSWORD)
    \/ \E u \in UserIds, d \in ProfileData : update_user_profile(u, d)
    \/ \E u \in UserIds, pr \in Preferences : update_user_preferences(u, pr)
    \/ \E u \in UserIds, p, q \in Passwords : change_password(u, p, q)
    \/ forgot_password("alice@example.com")
    \/ \E t \in Presentable : reset_password(t, ADMIN_PASSWORD)
    \/ \E t \in Presentable : logout(t)
    \/ \E t \in Presentable, sid \in SessionIds : logout_device(t, sid)

SpecProfile == Init /\ [][NextProfile]_vars

\* deactivation by an admin, and what the deactivated user then tries
NextDeactivate ==
    \/ create_admin_user
    \/ \E e \in Emails : signup(e, ADMIN_PASSWORD)
    \/ \E t \in Presentable : verify_email(t)
    \/ \E e \in Emails, p \in Passwords : signin(e, p)
    \/ \E t \in Presentable : get_user_details(t)
    \/ \E t \in Presentable : refresh_token(t)
    \/ \E t \in Presentable, u \in UserIds : toggle_user_status(t, u)

SpecDeactivate == Init /\ [][NextDeactivate]_vars

\* the password reset flow: accounts with live sessions, reset tokens that
\* are fresh or past their lifetime, and new passwords on both sides of
\* bcrypt's input limit
ResetTickSteps == {RESET_TOKEN_HOURS * 60 + 1}

ResetPasswords == {ADMIN_PASSWORD} \cup LongPasswords

NextReset ==
    \/ \E e \in Emails : signup(e, ADMIN_PASSWORD)
    \/ \E t \in Presentable : verify_email(t)
    \/ \E p \in ResetPasswords : signin("alice@example.com", p)
    \/ forgot_password("alice@example.com")
    \/ \E t \in Presentable, p \in ResetPasswords : reset_password(t, p)
    \/ \E d \in ResetTickSteps : Tick(d)

SpecReset == Init /\ [][NextReset]_vars

\* password hashing: signups and logins with passwords on both sides of
\* bcrypt's input limit, and one too short to be accepted
HashPasswords == Passwords \cup LongPasswords

HashBodies == [email : Emails, password : HashPasswords \cup {ShortPassword}]

NextHash ==
    \/ \E b \in HashBodies : signup_request(b, TRUE)
    \/ \E t \in Presentable : verify_email(t)
    \/ \E e \in Emails, p \in HashPasswords : signin(e, p)

SpecHash == Init /\ [][NextHash]_vars

\* session statistics: sign-ins from several devices, logouts, and the
\* statistics route
NextStats ==
    \/ \E e \in Emails : signup(e, ADMIN_PASSWORD)
    \/ \E t \in Presentable : verify_email(t)
    \/ \E e \in Emails, ua \in UserAgents : signin_request(e, ADMIN_PASSWORD, ua)
    \/ \E t \in Presentable : logout(t)
    \/ \E t \in Presentable, s \in SessionIds : logout_device(t, s)
    \/ \E t \in Presentable : get_session_stats(t)

SpecStats == Init /\ [][NextStats]_vars

\* the places that decide on premium access, for admins and for users
\* before and after an upgrade
NextGate ==
    \/ create_admin_user
    \/ \E e \in Emails : signup(e, ADMIN_PASSWORD)
    \/ \E t \in Presentable : verify_email(t)
    \/ \E e \in Emails : signin(e, ADMIN_PASSWORD)
    \/ \E u \in UserIds : handle_checkout_session_completed(u)
    \/ \E t \in Presentable : download_template(t)
    \/ \E t \in Presentable : check_screenshot_permission(t)
    \/ \E t \in Presentable : get_user_access_info(t)
    \/ \E t \in Presentable : serve_protected_file(t)

SpecGate == Init /\ [][NextGate]_vars

\* the two handlers that set the token cookies, under every configuration
NextCookies ==
    \/ signup("alice@example.com", ADMIN_PASSWORD)
    \/ \E t \in Presentable : verify_email(t)
    \/ signin("alice@example.com", ADMIN_PASSWORD)
    \/ \E t \in Presentable : refresh_token(t)

SpecCookies == InitAnySettings /\ [][NextCookies]_vars

\* the life of session records: sign-ins, logouts, revokes, and the deletion
\* of accounts by the service
NextLifecycle ==
    \/ \E e \in Emails : signup(e, ADMIN_PASSWORD)
    \/ \E t \in Presentable : verify_email(t)
    \/ \E e \in Emails : signin(e, ADMIN_PASSWORD)
    \/ \E t \in Presentable : logout(t)
    \/ \E t \in Presentable, s \in SessionIds : logout_device(t, s)
    \/ \E t \in Presentable : refresh_token(t)
    \/ \E u \in UserIds : delete_user_account(u)

SpecLifecycle == Init /\ [][NextLifecycle]_vars

\* sign-ins as their separate store writes, role changes and crashes in
\* between, refreshes and logouts
NextCrash ==
    \/ create_admin_user
    \/ \E e \in Emails : signup(e, ADMIN_PASSWORD)
    \/ \E t \in Presentable : verify_email(t)
    \/ \E r \in Requests, e \in Emails : signin_begin(r, e, ADMIN_PASSWORD, NoUserAgent)
    \/ \E r \in Requests : signin_finish(r)
    \/ \E r \in Requests : crash(r)
    \/ \E t \in Presentable : refresh_token(t)
    \/ \E t \in Presentable : logout(t)

SpecCrash == Init /\ [][NextCrash]_vars

\* the template routes, called by the administrator and by ordinary users
TemplateIdInputs == TemplateIds \cup {0}

NextTemplates ==
    \/ create_admin_user
    \/ signup("alice@example.com", ADMIN_PASSWORD)
    \/ \E t \in Presentable : verify_email(t)
    \/ \E e \in Emails : signin(e, ADMIN_PASSWORD)
    \/ \E t \in Presentable, image_ok \in BOOLEAN :
           create_template(t, "Invoice", image_ok)
    \/ \E t \in Presentable, i \in TemplateIdInputs, d \in TemplateUpdates :
           update_template(t, i, d)
    \/ \E t \in Presentable, i \in TemplateIdInputs : delete_template(t, i)

SpecTemplates == Init /\ [][NextTemplates]_vars

\* checkout sessions asked for by users who are and who are not premium
NextCheckout ==
    \/ create_admin_user
    \/ signup("alice@example.com", ADMIN_PASSWORD)
    \/ \E t \in Presentable : verify_email(t)
    \/ \E e \in Emails : signin(e, ADMIN_PASSWORD)
    \/ \E u \in UserIds : handle_checkout_session_completed(u)
    \/ \E t \in Presentable, f \in StripeFailures : create_checkout_session(t, f)

SpecCheckout == Init /\ [][NextCheckout]_vars

\* deliveries of the checkout.session.completed event and verify_session
\* calls for the one paid checkout session of each user, every handler as
\* its separate store operations
NextUpgrade ==
    \/ signup("alice@example.com", ADMIN_PASSWORD)
    \/ \E t \in Presentable : verify_email(t)
    \/ signin("alice@example.com", ADMIN_PASSWORD)
    \/ \E r \in Requests, u \in UserIds :
           handle_checkout_session_completed_update(r, u)
    \/ \E r \in Requests : handle_checkout_session_completed_insert(r)
    \/ \E r \in Requests, t \in Presentable, u \in UserIds :
           verify_session_read(r, t, u)
    \/ \E r \in Requests : verify_session_update(r)
    \/ \E r \in Requests : verify_session_insert(r)

SpecUpgrade == Init /\ [][NextUpgrade]_vars

(* ======================================================================= *)
(*                               Properties                                *)
(* ======================================================================= *)
CredentialsMatch(e, p) ==
    /\ find_by_email(e) # 0
    /\ users[find_by_email(e)].hashed_password = get_password_hash(p)

\* C1: signIn checks credentials first, then is_active, then is_verified:
\* a failed credential check answers "Invalid email or password" whatever
\* the flags are, a deactivated account answers "Account is deactivated"
\* whether verified or not, an active unverified one "Email not verified";
\* none of the three creates a session, an AuthToken record or a token
C1_SigninCheckOrder ==
    [][\A e \in Emails, p \in Passwords :
        signin(e, p) =>
            LET u == find_by_email(e)
            IN /\ ~CredentialsMatch(e, p) =>
                      /\ resp'.code = 401
                      /\ resp'.detail = "Invalid email or password"
               /\ (CredentialsMatch(e, p) /\ ~users[u].is_active) =>
                      /\ resp'.code = 401
                      /\ resp'.detail = "Account is deactivated"
               /\ (CredentialsMatch(e, p) /\ users[u].is_active
                                          /\ ~users[u].is_verified) =>
                      /\ resp'.code = 401
                      /\ resp'.detail = "Email not verified"
               /\ resp'.code = 401 =>
                      UNCHANGED <<sessions, auth_tokens, issued, users>>]_vars

\* a sign-in was refused as deactivated on an account that is also unverified
C1_Witness ==
    /\ resp.op = "signin"
    /\ resp.detail = "Account is deactivated"
    /\ ~users[resp.user].is_verified

\* what a successful sign-in is: one more session row, and a token pair whose
\* announced lifetime is the access token's own, the configured TTL in seconds
SigninSucceeded ==
    /\ resp'.code = 200
    /\ Cardinality({s \in SessionIds : sessions'[s] # NoSession}) =
           Cardinality(ExistingSessions) + 1
    /\ resp'.out.access_token.type = "access"
    /\ resp'.out.refresh_token.type = "refresh"
    /\ resp'.out.expires_in = ACCESS_TOKEN_EXPIRE_MINUTES * 60
    /\ resp'.out.expires_in = (resp'.out.access_token.exp - now) * 60

\* C2 as stated: for an account made by signup, a sign-in with the correct
\* password before verifyEmail has succeeded (the stored verification token
\* is still there) fails with "Email not verified"; once verifyEmail has
\* succeeded, a sign-in with the correct credentials succeeds, creates one
\* session and returns a pair with expires_in = ACCESS_TOKEN_EXPIRE_MINUTES*60
C2_Original ==
    [][\A e \in Emails, p \in Passwords :
        (signin(e, p) /\ CredentialsMatch(e, p)) =>
            IF users[find_by_email(e)].verification_token # None
            THEN resp'.code = 401 /\ resp'.detail = "Email not verified"
            ELSE SigninSucceeded]_vars

\* C2 as amended: while the stored is_verified of an account is false a
\* sign-in with the correct password never succeeds, and on an active account
\* it fails with "Email not verified"; is_verified turns true only through a
\* successful verifyEmail or through create_admin_user promoting the account
\* that holds ADMIN_EMAIL; on a verified, active account a sign-in with the
\* correct credentials succeeds, creates one session and returns a pair with
\* expires_in = ACCESS_TOKEN_EXPIRE_MINUTES * 60
C2_SigninNeedsVerified ==
    [][/\ \A e \in Emails, p \in Passwords :
            (signin(e, p) /\ CredentialsMatch(e, p)) =>
                LET u == find_by_email(e)
                IN /\ ~users[u].is_verified =>
                          /\ resp'.code = 401
                          /\ users[u].is_active => resp'.detail = "Email not verified"
                   /\ (users[u].is_verified /\ users[u].is_active) => SigninSucceeded
       /\ \A u \in ExistingUsers :
            (~users[u].is_verified /\ users'[u].is_verified) =>
                \/ resp'.op = "verify_email" /\ resp'.code = 200 /\ resp'.user = u
                \/ resp'.op = "create_admin" /\ users[u].email = ADMIN_EMAIL]_vars

\* signup, verifyEmail, then a sign-in that succeeded with its first session
C2_Witness ==
    /\ resp.op = "signin"
    /\ resp.code = 200
    /\ users[resp.user].role = "user"
    /\ users[resp.user].verification_token = None
    /\ resp.out.expires_in = 1800
    /\ Cardinality({s \in ExistingSessions : sessions[s].user_id = resp.user}) = 1

\* C3: the gate of the premium-gated routes decides from the stored
\* (role, is_premium): (user, false) is refused with 402 upgrade_required,
\* (admin, false) is allowed, (user, true) is allowed
C3_PremiumGate ==
    (resp.op = "download" /\ resp.code \in {200, 402}) =>
        LET u == users[resp.user]
        IN /\ (u.role = "user" /\ ~u.is_premium) =>
                  (resp.code = 402 /\ resp.detail = "upgrade_required")
           /\ (u.role = "admin" /\ ~u.is_premium) => resp.code = 200
           /\ (u.role = "user" /\ u.is_premium) => resp.code = 200

\* C4: the request that directly follows a premium upgrade of user u (webhook
\* or verify_session), made by u with a token handed out before the upgrade
\* and passing get_current_user, is allowed by the gate
C4_UpgradeTakesEffect ==
    [][(/\ resp.op \in {"webhook", "verify_session"}
        /\ resp.user # 0
        /\ users[resp.user] # NoUser
        /\ users[resp.user].is_premium
        /\ resp'.op \in {"download", "check_screenshot"}
        /\ resp'.user = resp.user
        /\ resp'.code \in {200, 402})
       => resp'.code = 200]_vars

SessionsOf(u) == {s \in ExistingSessions : sessions[s].user_id = u}

\* C5: a logout by user u leaves every session record of u with
\* is_active = false, whichever of u's tokens asked for it and however many
\* sessions u has, and leaves every other session record as it was
C5_LogoutDeactivatesAll ==
    [][(resp'.op = "logout" /\ resp'.code = 200) =>
        \A s \in SessionIds :
            IF sessions[s] # NoSession /\ sessions[s].user_id = resp'.user
            THEN sessions'[s] = [sessions[s] EXCEPT !.is_active = FALSE]
            ELSE sessions'[s] = sessions[s]]_vars

\* a logout was served for a user with two sessions, and both are inactive
C5_Witness ==
    /\ resp.op = "logout"
    /\ resp.code = 200
    /\ Cardinality(SessionsOf(resp.user)) >= 2
    /\ \A s \in SessionsOf(resp.user) : ~sessions[s].is_active

\* C6: the request that directly follows a served logout of user u and
\* presents an access token of u (necessarily one handed out before that
\* logout) is rejected, not served
C6_LoggedOutTokenRejected ==
    [][(/\ resp.op = "logout"
        /\ resp.code = 200
        /\ resp'.op \in {"details", "logout_device"}
        /\ resp'.user = resp.user)
       => resp'.code = 401]_vars

\* C7: DELETE /sessions/{id} deactivates the session exactly when it exists
\* and is owned by the requester, answers 404 and changes no session record
\* otherwise; and whatever the operation, a session only ever goes inactive
\* on a request served for its owner
C7_RevokeOnlyOwnSession ==
    [][/\ resp'.op = "logout_device" =>
            IF resp'.code = 401 THEN sessions' = sessions
            ELSE LET sid == resp'.out
                 IN IF sid \in ExistingSessions /\ sessions[sid].user_id = resp'.user
                    THEN /\ resp'.code = 200
                         /\ sessions' = [sessions EXCEPT ![sid].is_active = FALSE]
                    ELSE /\ resp'.code = 404
                         /\ sessions' = sessions
       /\ \A s \in ExistingSessions :
            (sessions[s].is_active /\ ~sessions'[s].is_active) =>
                /\ resp'.op \in {"logout", "logout_device"}
                /\ resp'.code = 200
                /\ resp'.user = sessions[s].user_id]_vars

\* a revoke aimed at another user's active session was answered 404 and the
\* session is still active
C7_Witness ==
    /\ resp.op = "logout_device"
    /\ resp.code = 404
    /\ resp.out \in ExistingSessions
    /\ sessions[resp.out].user_id # resp.user
    /\ sessions[resp.out].is_active

\* a presented token is a valid refresh token at the current time
ValidRefresh(t) ==
    /\ t.key = JWT_REFRESH_SECRET_KEY
    /\ now <= t.exp
    /\ t.type = "refresh"

\* the pair in the last response decodes, each token under its own secret,
\* to the given user_id and role
PairCarries(out, uid, role) ==
    LET a == verify_token(out.access_token, JWT_SECRET_KEY, now)
        r == verify_token(out.refresh_token, JWT_REFRESH_SECRET_KEY, now)
    IN /\ a # None /\ a.type = "access" /\ a.user_id = uid /\ a.role = role
       /\ r # None /\ r.type = "refresh" /\ r.user_id = uid /\ r.role = role

\* C8 as stated: an invalid token gives InvalidToken and issues nothing; a
\* valid refresh token gives a new pair with the presented token's user_id
\* and role
C8_Original ==
    [][\A t \in Presentable : refresh_token(t) =>
        IF ValidRefresh(t)
        THEN /\ resp'.code = 200
             /\ PairCarries(resp'.out, t.user_id, t.role)
        ELSE /\ resp'.code = 401
             /\ resp'.detail = "Invalid refresh token"
             /\ issued' = issued]_vars

\* C8: a token that is expired, not signed with the refresh secret or not of
\* type 'refresh' is answered 401 "Invalid refresh token" and nothing is
\* issued; a valid refresh token whose user is missing or deactivated is
\* answered 401 and nothing is issued; a valid refresh token of an active
\* user gives a new pair carrying the token's user_id and the role the user
\* record holds now, which is the token's role unless the role was changed
\* after the token was issued
C8_RefreshRereadsUser ==
    [][\A t \in Presentable : refresh_token(t) =>
        IF ~ValidRefresh(t)
        THEN /\ resp'.code = 401
             /\ resp'.detail = "Invalid refresh token"
             /\ issued' = issued
        ELSE IF users[t.user_id] = NoUser \/ ~users[t.user_id].is_active
        THEN /\ resp'.code = 401
             /\ issued' = issued
        ELSE /\ resp'.code = 200
             /\ PairCarries(resp'.out, t.user_id, users[t.user_id].role)
             /\ issued' = issued \cup {resp'.out.access_token,
                                       resp'.out.refresh_token}]_vars

\* a refresh was served with role admin for a user who still holds a valid
\* refresh token issued with role user
C8_Witness ==
    /\ resp.op = "refresh"
    /\ resp.code = 200
    /\ resp.out.access_token.role = "admin"
    /\ \E t \in issued : /\ ValidRefresh(t)
                         /\ t.user_id = resp.user
                         /\ t.role = "user"

\* C9: no token signed with the access secret verifies under the refresh
\* secret and none signed with the refresh secret verifies under the access
\* secret; the pair just handed out by signin or refresh verifies, each token
\* under its own secret and with its own type, and carries the user_id and
\* role it was issued for
C9_SecretsSeparateTokens ==
    /\ \A t \in issued :
        /\ t.key = JWT_SECRET_KEY =>
              verify_token(t, JWT_REFRESH_SECRET_KEY, now) = None
        /\ t.key = JWT_REFRESH_SECRET_KEY =>
              verify_token(t, JWT_SECRET_KEY, now) = None
    /\ (resp.op \in {"signin", "refresh"} /\ resp.code = 200) =>
        /\ resp.out.access_token.key = JWT_SECRET_KEY
        /\ resp.out.refresh_token.key = JWT_REFRESH_SECRET_KEY
        /\ PairCarries(resp.out, resp.user, resp.out.user.role)

\* a refresh has just handed out a pair while tokens of all four types,
\* signed with both secrets, are outstanding
C9_Witness ==
    /\ resp.op = "refresh"
    /\ resp.code = 200
    /\ \A ty \in {"access", "refresh", "verification", "reset"} :
          \E t \in issued : t.type = ty

\* C10: each consumer serves only its own token type: GET /details only
\* 'access', refresh only 'refresh', verifyEmail only 'verification',
\* resetPassword only 'reset'; a verification or reset token is answered 401
\* as an access token, a reset token verifies no email and a verification
\* token resets no password
C10_ConsumersEnforceType ==
    [][\A t \in Presentable :
        /\ get_user_details(t) =>
              /\ resp'.code = 200 => t.type = "access"
              /\ t.type \in {"verification", "reset"} => resp'.code = 401
        /\ refresh_token(t) =>
              /\ resp'.code = 200 => t.type = "refresh"
        /\ verify_email(t) =>
              /\ resp'.code = 200 => t.type = "verification"
              /\ t.type # "verification" =>
                    /\ resp'.detail = "Invalid verification token"
                    /\ users' = users
        /\ \A p \in Passwords : reset_password(t, p) =>
              /\ resp'.code = 200 => t.type = "reset"
              /\ t.type # "reset" =>
                    /\ resp'.detail = "Invalid reset token"
                    /\ users' = users]_vars

\* an unexpired reset token for a still unverified account is outstanding
\* and the last verifyEmail was refused as an invalid verification token
C10_Witness ==
    /\ resp.op = "verify_email"
    /\ resp.detail = "Invalid verification token"
    /\ \E t \in issued :
          /\ t.type = "reset"
          /\ verify_token(t, JWT_SECRET_KEY, now) # None
          /\ find_by_email(t.email) # 0
          /\ ~users[find_by_email(t.email)].is_verified

C12_StoredTokenChecked ==
    [][\A t \in Presentable :
          (verify_email(t) /\ resp'.code = 200) =>
              t = users[resp'.user].verification_token]_vars

\* C13: forgotPassword gives one and the same response whether or not the
\* email has an account: in every state the answer for a registered email
\* equals the answer for an unregistered one, it is the same fixed success
\* message in all states, and no user, session or AuthToken record changes
C13_ForgotPasswordUniform ==
    [][\A e \in Emails : forgot_password(e) =>
          /\ \A e2 \in Emails : forgot_password_response(e2) = resp'
          /\ resp'.code = 200
          /\ resp'.detail = "If the email exists, a password reset link has been sent"
          /\ resp'.out = None
          /\ users' = users
          /\ sessions' = sessions
          /\ auth_tokens' = auth_tokens]_vars

\* forgotPassword has been answered while one email has an account, for
\* which a reset token went out, and another email has none
C13_Witness ==
    /\ resp.op = "forgot"
    /\ \E t \in issued : t.type = "reset" /\ find_by_email(t.email) # 0
    /\ \E e \in Emails : find_by_email(e) = 0

\* C14: in every reachable state no two user records hold the same email,
\* however the store operations of concurrent signups and profile updates
\* interleave
C14_EmailUnique ==
    \A u, v \in ExistingUsers : u # v => users[u].email # users[v].email

\* C15: a signup for an email that already has a user is answered
\* DuplicateEmail and writes nothing; any other valid signup creates exactly
\* one user, with role 'user', active, unverified, not premium and with a
\* stored verification token and expiry, and that holds whether or not the
\* verification mail could be sent
C15_SignupContract ==
    [][\A b \in SignupBodies, delivered \in BOOLEAN :
          (signup_request(b, delivered) /\ Len(b.password) >= PASSWORD_MIN_LENGTH) =>
              IF find_by_email(b.email) # 0
              THEN /\ resp'.code = 400
                   /\ resp'.detail = "Email already registered"
                   /\ users' = users
                   /\ sessions' = sessions
                   /\ auth_tokens' = auth_tokens
                   /\ issued' = issued
              ELSE /\ resp'.code = 200
                   /\ \E u \in UserIds :
                        /\ users[u] = NoUser
                        /\ \A v \in UserIds \ {u} : users'[v] = users[v]
                        /\ users'[u] # NoUser
                        /\ users'[u].email = b.email
                        /\ users'[u].role = "user"
                        /\ users'[u].is_active
                        /\ ~users'[u].is_verified
                        /\ ~users'[u].is_premium
                        /\ users'[u].verification_token =
                              create_verification_token(b.email, now)
                        /\ users'[u].verification_token_expires =
                              now + VERIFICATION_TOKEN_HOURS * 60]_vars

\* a signup was answered with success and its account exists although the
\* verification mail never went out
C15_Witness ==
    /\ resp.op = "signup"
    /\ resp.code = 200
    /\ users[resp.user] # NoUser
    /\ users[resp.user].verification_token # None
    /\ users[resp.user].verification_token \notin issued

\* C16: none of signup, verifyEmail, update_user_profile,
\* update_user_preferences, change_password, forgotPassword, resetPassword,
\* signIn, logout and revokeSession changes the stored role of any user, and
\* an account that signup creates has role 'user' whatever the body carries
C16_RoleImmutableBySelf ==
    [][resp'.op \in {"signup", "verify_email", "update_profile", "update_preferences",
                     "change_password", "forgot", "reset_password", "signin",
                     "logout", "logout_device"} =>
          \A u \in UserIds :
              /\ users[u] # NoUser => (users'[u] # NoUser /\ users'[u].role = users[u].role)
              /\ (users[u] = NoUser /\ users'[u] # NoUser) => users'[u].role = "user"]_vars

\* a profile update that carried role 'admin' along with a new email went
\* through: the account signed up under another email now has ADMIN_EMAIL,
\* and its role is still 'user'
C16_Witness ==
    /\ resp.op = "update_profile"
    /\ resp.code = 200
    /\ users[resp.user].email = ADMIN_EMAIL
    /\ users[resp.user].verification_token # None
    /\ users[resp.user].verification_token.email # ADMIN_EMAIL
    /\ users[resp.user].role = "user"

Deactivated(u) == u \in ExistingUsers /\ ~users[u].is_active

\* C17: while a user's is_active is false, every request behind
\* get_current_user that presents one of the user's access tokens is answered
\* 401, every refresh with one of the user's refresh tokens is answered 401
\* and issues nothing, and every sign-in to the account is answered 401 and
\* creates no session and no token; is_active stays false until an admin's
\* toggle_user_status sets it back
C17_DeactivatedIsLockedOut ==
    [][/\ \A t \in Presentable :
            /\ (get_user_details(t) /\ Deactivated(t.user_id)) => resp'.code = 401
            /\ (refresh_token(t) /\ Deactivated(t.user_id)) =>
                    (resp'.code = 401 /\ issued' = issued)
            /\ \A u \in UserIds :
                 (toggle_user_status(t, u) /\ Deactivated(t.user_id)) =>
                    (resp'.code = 401 /\ users' = users)
       /\ \A e \in Emails, p \in Passwords :
            (signin(e, p) /\ Deactivated(find_by_email(e))) =>
                /\ resp'.code = 401
                /\ sessions' = sessions
                /\ auth_tokens' = auth_tokens
                /\ issued' = issued
       /\ \A u \in UserIds :
            (Deactivated(u) /\ users'[u].is_active) =>
                (resp'.op = "toggle_status" /\ resp'.code = 200 /\ resp'.out = u)]_vars

\* a refresh was refused for a deactivated user who holds a refresh token
\* that is neither expired nor malformed, and an unexpired access token
C17_Witness ==
    /\ resp.op = "refresh"
    /\ resp.code = 401
    /\ resp.user # 0
    /\ Deactivated(resp.user)
    /\ \E t \in issued : ValidRefresh(t) /\ t.user_id = resp.user
    /\ \E t \in issued : /\ t.type = "access"
                         /\ t.user_id = resp.user
                         /\ verify_token(t, JWT_SECRET_KEY, now) # None

\* C18: resetPassword with a token that is not a valid reset token answers
\* "Invalid reset token" and changes no user; with a valid one it replaces
\* the stored hash and nothing else of the user, so that authenticate
\* succeeds with the new password and fails with the old one, that is with
\* every other password that worked before; in both cases every session and
\* AuthToken record is left as it was
C18_ResetPasswordContract ==
    [][\A t \in Presentable, p \in ResetPasswords : reset_password(t, p) =>
          LET payload == verify_token(t, JWT_SECRET_KEY, now)
              u == find_by_email(t.email)
          IN /\ sessions' = sessions
             /\ auth_tokens' = auth_tokens
             /\ IF payload = None \/ t.type # "reset"
                THEN /\ resp'.code = 400
                     /\ resp'.detail = "Invalid reset token"
                     /\ users' = users
                ELSE u # 0 =>
                     /\ resp'.code = 200
                     /\ users' = [users EXCEPT ![u].hashed_password =
                                      users'[u].hashed_password]
                     /\ verify_password(p, users'[u].hashed_password)
                     /\ \A q \in ResetPasswords \ {p} :
                            verify_password(q, users[u].hashed_password) =>
                                ~verify_password(q, users'[u].hashed_password)]_vars

\* C18 without what it inherits from the hashing: the same contract, the
\* passwords that fail after the reset being those that differ from the new
\* one within the bytes bcrypt digests
C18_ResetPasswordUpToBcryptInput ==
    [][\A t \in Presentable, p \in ResetPasswords : reset_password(t, p) =>
          LET payload == verify_token(t, JWT_SECRET_KEY, now)
              u == find_by_email(t.email)
          IN /\ sessions' = sessions
             /\ auth_tokens' = auth_tokens
             /\ IF payload = None \/ t.type # "reset"
                THEN /\ resp'.code = 400
                     /\ resp'.detail = "Invalid reset token"
                     /\ users' = users
                ELSE u # 0 =>
                     /\ resp'.code = 200
                     /\ users' = [users EXCEPT ![u].hashed_password =
                                      users'[u].hashed_password]
                     /\ verify_password(p, users'[u].hashed_password)
                     /\ \A q \in ResetPasswords :
                            bcrypt_input(q) # bcrypt_input(p) =>
                                ~verify_password(q, users'[u].hashed_password)]_vars

\* a password reset has been served for a user who holds an active session,
\* and the stored hash is no longer that of the password chosen at signup
C18_Witness ==
    /\ resp.op = "reset_password"
    /\ resp.code = 200
    /\ ~verify_password(ADMIN_PASSWORD, users[resp.user].hashed_password)
    /\ \E s \in ExistingSessions :
          sessions[s].user_id = resp.user /\ sessions[s].is_active

\* C19 (as stated): the hash a valid signup stores verifies against the
\* signup's password, against no other password, and is never the plaintext
C19_HashVerifiesOnlyOriginal ==
    [][\A b \in HashBodies :
          (signup_request(b, TRUE) /\ resp'.code = 200) =>
              LET h == users'[resp'.user].hashed_password
              IN /\ verify_password(b.password, h)
                 /\ \A q \in HashPasswords \ {b.password} : ~verify_password(q, h)
                 /\ h # b.password]_vars

\* C19: the hash a valid signup stores verifies against the signup's
\* password and against exactly those passwords that agree with it on the
\* first 72 bytes, which for passwords of at most 72 bytes is no other
\* password; it is never the plaintext
C19_HashVerifiesUpToBcryptInput ==
    [][\A b \in HashBodies :
          (signup_request(b, TRUE) /\ resp'.code = 200) =>
              LET h == users'[resp'.user].hashed_password
              IN /\ verify_password(b.password, h)
                 /\ \A q \in HashPasswords :
                        verify_password(q, h) <=>
                            bcrypt_input(q) = bcrypt_input(b.password)
                 /\ \A q \in HashPasswords \ {b.password} :
                        (Len(q) <= BCRYPT_MAX_BYTES
                            /\ Len(b.password) <= BCRYPT_MAX_BYTES)
                        => ~verify_password(q, h)
                 /\ h # b.password]_vars

\* a signup with a password longer than bcrypt's input has been served, and
\* the stored hash verifies against two different passwords
C19_Witness ==
    /\ resp.op = "signup"
    /\ resp.code = 200
    /\ \E p \in LongPasswords, q \in LongPasswords :
          /\ p # q
          /\ verify_password(p, users[resp.user].hashed_password)
          /\ verify_password(q, users[resp.user].hashed_password)

\* the entries of a breakdown added up
RECURSIVE breakdown_total(_)
breakdown_total(breakdown) ==
    IF DOMAIN breakdown = {} THEN 0
    ELSE LET k == CHOOSE x \in DOMAIN breakdown : TRUE
         IN breakdown[k] +
            breakdown_total([j \in DOMAIN breakdown \ {k} |-> breakdown[j]])

\* C20: for every user u, sessionStats gives total_sessions as the number
\* of u's session records, active_sessions and inactive_sessions as the
\* numbers of those with is_active true and false, so that total = active +
\* inactive; the per-device and the per-browser breakdown each add up to the
\* total; a user without sessions gets zeros throughout; what the route
\* serves is these statistics of the caller; and once a user's first
\* sign-in has succeeded active_sessions is 1
C20_SessionStatsConsistent ==
    /\ \A u \in ExistingUsers :
          LET stats == get_session_stats_result(u)
          IN /\ stats.total_sessions = Cardinality(SessionsOf(u))
             /\ stats.active_sessions =
                    Cardinality({s \in SessionsOf(u) : sessions[s].is_active})
             /\ stats.inactive_sessions =
                    Cardinality({s \in SessionsOf(u) : ~sessions[s].is_active})
             /\ stats.total_sessions =
                    stats.active_sessions + stats.inactive_sessions
             /\ breakdown_total(stats.sessions_by_device) = stats.total_sessions
             /\ breakdown_total(stats.sessions_by_browser) = stats.total_sessions
             /\ SessionsOf(u) = {} =>
                    /\ stats.total_sessions = 0
                    /\ stats.active_sessions = 0
                    /\ stats.inactive_sessions = 0
                    /\ breakdown_total(stats.sessions_by_device) = 0
                    /\ breakdown_total(stats.sessions_by_browser) = 0
    /\ (resp.op = "session_stats" /\ resp.code = 200) =>
          resp.out = get_session_stats_result(resp.user)
    /\ (resp.op = "signin" /\ resp.code = 200
            /\ Cardinality(SessionsOf(resp.user)) = 1) =>
          get_session_stats_result(resp.user).active_sessions = 1

\* statistics have been served to a user with a session on each of two
\* devices, one of them logged out, while another user has none
C20_Witness ==
    /\ resp.op = "session_stats"
    /\ resp.code = 200
    /\ resp.out.total_sessions = 2
    /\ resp.out.active_sessions = 1
    /\ resp.out.inactive_sessions = 1
    /\ Cardinality(DOMAIN resp.out.sessions_by_device) = 2
    /\ \E u \in ExistingUsers : SessionsOf(u) = {}

\* C21: for a caller whose stored role is admin and whose stored is_premium
\* is false, every place that decides on premium access grants it: template
\* download and the screenshot check answer 200, both access-info handlers
\* report has_premium_access, and protected file serving hands out the
\* original file
C21_AdminFullAccess ==
    \A t \in Presentable :
        LET cu == get_current_user(t)
        IN (/\ cu.code = 200
            /\ users[cu.id].role = "admin"
            /\ ~users[cu.id].is_premium) =>
               /\ require_premium_access(t).code = 200
               /\ check_screenshot_result(t).code = 200
               /\ get_user_access_info_result(t).user.has_premium_access
               /\ get_template_access_info_result(t).user.has_premium_access
               /\ serve_protected_file_result(t).detail = "original"

\* C21 without protected file serving: the other places grant an admin
\* without the premium flag what they grant a premium user
C21_AdminFullAccessButFiles ==
    \A t \in Presentable :
        LET cu == get_current_user(t)
        IN (/\ cu.code = 200
            /\ users[cu.id].role = "admin"
            /\ ~users[cu.id].is_premium) =>
               /\ require_premium_access(t).code = 200
               /\ check_screenshot_result(t).code = 200
               /\ get_user_access_info_result(t).user.has_premium_access
               /\ get_user_access_info_result(t).user.can_download
               /\ ~get_user_access_info_result(t).user.upgrade_required
               /\ get_template_access_info_result(t).user.has_premium_access

\* an admin without the premium flag has been served a protected file
C21_Witness ==
    /\ resp.op = "serve_file"
    /\ resp.code = 200
    /\ users[resp.user].role = "admin"
    /\ ~users[resp.user].is_premium

\* C22: whenever ENVIRONMENT is production, the access_token and the
\* refresh_token cookie that a successful signin or refresh-token sets carry
\* secure = true
C22_SecureCookiesInProduction ==
    (resp.op \in {"signin", "refresh"} /\ resp.code = 200 /\ is_production) =>
        /\ {c.key : c \in resp.cookies} = {"access_token", "refresh_token"}
        /\ \A c \in resp.cookies : c.secure

\* a signin or a refresh has set both token cookies in production
C22_Witness ==
    /\ resp.op \in {"signin", "refresh"}
    /\ resp.code = 200
    /\ is_production
    /\ {c.key : c \in resp.cookies} = {"access_token", "refresh_token"}

\* C23 (as stated): a session record that exists stays in the store under
\* every operation and is never set back to active; it turns inactive only
\* through a served logout or revoke of its owner
C23_SessionNeverDeleted ==
    [][\A s \in SessionIds : sessions[s] # NoSession =>
          /\ sessions'[s] # NoSession
          /\ sessions'[s].is_active => sessions[s].is_active
          /\ (sessions[s].is_active /\ ~sessions'[s].is_active) =>
                 /\ resp'.op \in {"logout", "logout_device"}
                 /\ resp'.code = 200
                 /\ resp'.user = sessions[s].user_id]_vars

\* C23: a session record is never set back to active and is otherwise left
\* as it was; it turns inactive only through a served logout or revoke of
\* its owner; and it leaves the store only when delete_user_account deletes
\* the account of its owner, every other operation keeping it
C23_SessionOnlyFlaggedUnlessAccountDeleted ==
    [][\A s \in SessionIds : sessions[s] # NoSession =>
          IF sessions'[s] = NoSession
          THEN /\ resp'.op = "delete_account"
               /\ resp'.user = sessions[s].user_id
               /\ users'[sessions[s].user_id] = NoUser
          ELSE /\ sessions'[s] = [sessions[s] EXCEPT !.is_active = sessions'[s].is_active]
               /\ sessions'[s].is_active => sessions[s].is_active
               /\ (sessions[s].is_active /\ ~sessions'[s].is_active) =>
                      /\ resp'.op \in {"logout", "logout_device"}
                      /\ resp'.code = 200
                      /\ resp'.user = sessions[s].user_id]_vars

\* an account with a session has been deleted while a logged-out session of
\* another user is still in the store
C23_Witness ==
    /\ resp.op = "delete_account"
    /\ resp.out = TRUE
    /\ retired.sessions # {}
    /\ \E s \in ExistingSessions : ~sessions[s].is_active

C25_RefreshWritesNothing ==
    [][\A t \in Presentable : refresh_token(t) =>
          /\ auth_tokens' = auth_tokens
          /\ sessions' = sessions
          /\ users' = users
          /\ resp'.code = 200 =>
                 /\ issued' = issued \cup {resp'.out.access_token,
                                           resp'.out.refresh_token}
                 /\ ValidRefresh(t)
                 /\ refresh_token_result(t)'.code = 200
                 /\ \A t2 \in Presentable :
                        refresh_token_result(t2).code = 200 =>
                            refresh_token_result(t2)'.code = 200]_vars

\* a refresh has been served with a token whose AuthToken record is still
\* in the store, active, with the session it belongs to
C25_Witness ==
    /\ resp.op = "refresh"
    /\ resp.code = 200
    /\ \E tk \in auth_tokens :
          /\ tk.is_active
          /\ ValidRefresh(tk.refresh_token)
          /\ sessions[tk.session_id] # NoSession
          /\ sessions[tk.session_id].user_id = resp.user

\* C26: after delete_user_account(u) the store holds no user record for u,
\* no session record owned by u and no AuthToken record of a session that
\* was u's
C26_DeleteRemovesEverything ==
    [][\A u \in UserIds : delete_user_account(u) =>
          /\ users'[u] = NoUser
          /\ \A s \in SessionIds :
                 sessions'[s] # NoSession => sessions'[s].user_id # u
          /\ \A tk \in auth_tokens' :
                 ~(/\ sessions[tk.session_id] # NoSession
                   /\ sessions[tk.session_id].user_id = u)]_vars

\* C26 for the user and session records alone: both are gone after
\* delete_user_account(u), and the records of other users are untouched
C26_DeleteRemovesUserAndSessions ==
    [][\A u \in UserIds : delete_user_account(u) =>
          /\ users' = [users EXCEPT ![u] = NoUser]
          /\ \A s \in SessionIds :
                 sessions'[s] = IF sessions[s] # NoSession /\ sessions[s].user_id = u
                                THEN NoSession ELSE sessions[s]
          /\ auth_tokens' = auth_tokens]_vars

\* C27: a template is updated or deleted only for its uploader or for a user
\* whose stored role is admin, and then only that template changes; any other
\* authenticated caller gets 403 and a nonexistent template gets 404, both
\* with every template unchanged; a template is created only for a user whose
\* stored role is admin
C27_TemplateWritesAuthorised ==
    [][LET r == resp'
           authenticated == r.code # 401
           exists == r.out \in TemplateIds /\ templates[r.out] # NoTemplate
           allowed == /\ exists
                      /\ \/ templates[r.out].uploaded_by = r.user
                         \/ users[r.user].role = "admin"
       IN /\ r.op \in {"update_template", "delete_template"} =>
                /\ r.code = 200 =>
                      /\ allowed
                      /\ \A i \in TemplateIds \ {r.out} : templates'[i] = templates[i]
                      /\ r.op = "delete_template" => templates'[r.out] = NoTemplate
                      /\ r.op = "update_template" =>
                             /\ templates'[r.out] # NoTemplate
                             /\ templates'[r.out].uploaded_by =
                                    templates[r.out].uploaded_by
                /\ r.code # 200 => templates' = templates
                /\ authenticated /\ exists /\ ~allowed => r.code = 403
                /\ authenticated /\ r.out \in TemplateIds /\ ~exists => r.code = 404
          /\ r.op = "create_template" =>
                /\ r.code = 200 =>
                      /\ users[r.user].role = "admin"
                      /\ templates'[r.out].uploaded_by = r.user
                      /\ \A i \in TemplateIds \ {r.out} : templates'[i] = templates[i]
                /\ r.code # 200 => templates' = templates
                /\ authenticated /\ users[r.user].role # "admin" => r.code = 403
          /\ r.op \notin {"update_template", "delete_template", "create_template"}
                => templates' = templates]_vars

\* an ordinary user was just refused on a template that exists, after the
\* administrator had deleted another one
C27_Witness ==
    /\ resp.op \in {"update_template", "delete_template"}
    /\ resp.code = 403
    /\ resp.user \in ExistingUsers
    /\ users[resp.user].role = "user"
    /\ resp.out \in TemplateIds
    /\ templates[resp.out] # NoTemplate
    /\ templates[resp.out].uploaded_by # resp.user
    /\ \E i \in TemplateIds : i \in retired.templates

\* C28: create_checkout_session called by a user whose stored is_premium is
\* true answers 400 'User already has premium access', creates no Stripe
\* customer and no checkout session, and changes no user record
C28_PremiumUserRefused400 ==
    [][\A t \in Presentable, f \in StripeFailures :
          (/\ create_checkout_session(t, f)
           /\ get_current_user(t).code = 200
           /\ users[get_current_user(t).id].is_premium) =>
             /\ resp'.code = 400
             /\ resp'.detail = "User already has premium access"
             /\ stripe' = stripe
             /\ users' = users]_vars

\* C28 without the status seen by the caller: the request of a premium user
\* fails, and neither Stripe nor any user record changes
C28_PremiumUserChangesNothing ==
    [][\A t \in Presentable, f \in StripeFailures :
          (/\ create_checkout_session(t, f)
           /\ get_current_user(t).code = 200
           /\ users[get_current_user(t).id].is_premium) =>
             /\ resp'.code >= 400
             /\ stripe' = stripe
             /\ users' = users]_vars

\* a premium user, who had a checkout session created before the upgrade,
\* has just been answered by create_checkout_session
C28_Witness ==
    /\ resp.op = "create_checkout"
    /\ resp.code # 401
    /\ resp.user \in ExistingUsers
    /\ users[resp.user].is_premium
    /\ \E c \in stripe.checkout_sessions : c.user_id = resp.user

\* C29: for the paid checkout session of a user at most one premium_upgrades
\* record is inserted, however often and in whatever interleaving the
\* webhook handler and verify_session run for it, and once a record is
\* inserted the user's is_premium is true
C29_AtMostOneUpgradeRecord ==
    \A u \in UserIds :
        /\ premium_upgrades[u] <= 1
        /\ premium_upgrades[u] >= 1 /\ users[u] # NoUser => users[u].is_premium

\* C29 without the count: a user for whom an upgrade record was inserted, or
\* whose upgrade is under way past its update, is premium
C29_UpgradedStaysPremium ==
    \A u \in UserIds :
        users[u] # NoUser =>
            /\ premium_upgrades[u] >= 1 => users[u].is_premium
            /\ \A r \in Requests :
                   (/\ inflight[r] # Idle
                    /\ inflight[r].user_id = u
                    /\ inflight[r].step = "insert") => users[u].is_premium

\* the handlers ran to the end twice for the same user's checkout session
C29_Witness ==
    \E u \in ExistingUsers :
        /\ premium_upgrades[u] = 2
        /\ users[u].is_premium
        /\ \A r \in Requests : inflight[r] = Idle

\* C30: a reset token works once: when reset_password has just succeeded
\* with a token, a further reset_password with the same, still unexpired
\* token does not change the stored password again
C30_ResetTokenSingleUse ==
    [][\A t \in Presentable, p \in ResetPasswords :
          (/\ resp.op = "reset_password"
           /\ resp.code = 200
           /\ resp.out = t
           /\ verify_token(t, JWT_SECRET_KEY, now) # None
           /\ reset_password(t, p)) => users' = users]_vars

\* C30 as the code has it: a reset token works for every call until it
\* expires or the account's email changes
C30_ResetTokenWorksUntilExpiry ==
    [][\A t \in Presentable, p \in ResetPasswords :
          (/\ resp.op = "reset_password"
           /\ resp.code = 200
           /\ resp.out = t
           /\ verify_token(t, JWT_SECRET_KEY, now) # None
           /\ reset_password(t, p)) =>
              /\ resp'.code = 200
              /\ users'[resp.user].hashed_password = get_password_hash(p)]_vars

\* a reset_password presenting a reset token has been served, and the stored
\* hash is no longer that of the password chosen at signup
C30_Witness ==
    /\ resp.op = "reset_password"
    /\ resp.code = 200
    /\ resp.out.type = "reset"
    /\ ~verify_password(ADMIN_PASSWORD, users[resp.user].hashed_password)

====
